---- MODULE Spec2Model ----
(***************************************************************************)
(* Focus-Lock: the process restriction engine (ProcessMonitor), the unlock *)
(* evaluator (UnlockService) and the focus mode store, modelled from       *)
(*   src/src/main/services/process-monitor.ts                              *)
(*   src/src/main/database/database.ts  (UnlockService, lines 331-623)     *)
(*   src/src/renderer/stores/sticky-note-store.ts  (useFocusModeStore)     *)
(*                                                                         *)
(* JavaScript runs one callback to completion at a time, so an action of   *)
(* the monitor is one run-to-completion step: a public call, a timer       *)
(* firing, or the continuation after an awaited OS call has settled.       *)
(***************************************************************************)
EXTENDS Integers, Sequences, FiniteSets, TLC

\* ------------------------------------------------------------------------
\* Bounds of the model
\* ------------------------------------------------------------------------
MaxStarts == 2      \* number of startMonitoring calls in a behaviour
MaxTicks  == 3      \* number of poll ticks that begin in a behaviour
MaxTasks  == 3      \* length of a task list
CountCap  == 2      \* the history counters stop counting here
ClockStart    == 1       \* Date.now() when the store is created
ClockStep     == 900000  \* milliseconds by which the model's clock advances
MaxClockTicks == 3       \* number of clock advances in a behaviour
MaxSessions   == 2       \* number of records in the session history
MaxCustomApps == 1       \* number of restricted apps a user adds
MaxRows       == 2       \* rows of a tasklist output given to the matcher
MaxApps       == 2       \* entries of a restriction list given to the matcher
MaxIntervalSteps == 30   \* number of poll intervals a caller chooses from
IntervalStep     == 100  \* milliseconds between two of those intervals
LongTasks        == 201  \* length of the long task lists

\* ------------------------------------------------------------------------
\* Constants of the source
\* ------------------------------------------------------------------------
DefaultPollIntervalMs == 1500   \* DEFAULT_CONFIG.pollIntervalMs
MinPollIntervalMs     == 500    \* the floor of setPollInterval

\* ------------------------------------------------------------------------
\* The OS as seen by the monitor
\* ------------------------------------------------------------------------
\* toLowerCase() on the executable names of the model's universe
ToLowerCase(s) ==
  CASE s = "Steam.exe"   -> "steam.exe"
    [] s = "Discord.EXE" -> "discord.exe"
    [] OTHER             -> s

\* name.replace('.exe', ''): removes the first, case-sensitive, '.exe'
StripExe(s) ==
  CASE s = "steam.exe"   -> "steam"
    [] s = "Steam.exe"   -> "Steam"
    [] s = "discord.exe" -> "discord"
    [] s = "notepad.exe" -> "notepad"
    [] OTHER             -> s

Row(n, p) == [name |-> n, pid |-> p]

\* the parsed rows ("name","pid") of the outputs tasklist can give
TasklistOutputs ==
  { << >>,
    << Row("steam.exe", 1), Row("Discord.EXE", 2) >>,
    << Row("notepad.exe", 3), Row("Steam.exe", 1) >> }

\* an OS query either fails or yields an output
ScanOutcomes ==
  { [ok |-> FALSE, rows |-> << >>] } \cup
  { [ok |-> TRUE, rows |-> r] : r \in TasklistOutputs }

\* a taskkill request succeeds or fails with a message
KillErrors   == { "Process not found", "Access denied" }
KillOutcomes == { "ok" } \cup KillErrors

App(e, en) == [executableName |-> e, isEnabled |-> en]

\* the restriction lists a driver passes to startMonitoring
RestrictionLists ==
  { << App("Steam.exe", TRUE), App("discord.exe", TRUE) >>,
    << App("steam.exe", FALSE), App("discord.exe", TRUE) >> }

\* ------------------------------------------------------------------------
\* State of one ProcessMonitor
\* ------------------------------------------------------------------------
VARIABLES
  gracefulTerminationFirst,     \* config.gracefulTerminationFirst
  isMonitoring,                 \* this.isMonitoring
  pollTimer,                    \* this.pollTimer: a timer id, 0 = null
  onRestrictedProcessDetected,  \* callback slot: a callback id, 0 = null
  onProcessTerminated,          \* callback slot: a callback id, 0 = null
  ticks,                        \* poll invocations awaiting an OS call
  timers,                       \* pending setTimeout(poll) timers
  startCalls,                   \* number of startMonitoring calls made
  tickCount,                    \* number of ticks begun
  supplied,                     \* history: callbacks given to the start in effect
  omitted,                      \* history: a start that took effect left a callback out
  lastTermination,              \* history: the terminateProcess call that returned in the last step
  lastCall,                     \* history: the terminateProcess call made in the last step
  lastScan,                     \* history: "failed" when the last step was a scan whose OS query failed
  failures                      \* history, kept when .tracked: pids whose last termination in this run failed

monitorVars ==
  << gracefulTerminationFirst, isMonitoring, pollTimer,
     onRestrictedProcessDetected, onProcessTerminated, ticks, timers,
     startCalls, tickCount, supplied, omitted, lastTermination, lastCall,
     lastScan, failures >>

\* ========================================================================
\* UnlockService (src/src/main/database/database.ts)
\* ========================================================================
Statuses     == { "pending", "completed", "cancelled" }
Difficulties == { "easy", "medium", "hard" }
Task(s, d)   == [status |-> s, difficulty |-> d]

\* the tasks of the lists a driver passes to processTaskCompletion
Tasks ==
  << Task("pending", "medium"), Task("cancelled", "easy"),
     Task("completed", "easy"), Task("completed", "medium"),
     Task("completed", "hard") >>

\* the service only filters, counts and sums over a list, so the lists are
\* taken up to the order of their tasks
Ascending(n) ==
  { f \in [1..n -> 1..Len(Tasks)] : \A i \in 1..(n - 1) : f[i] <= f[i + 1] }

TaskLists ==
  UNION { { [i \in 1..n |-> Tasks[f[i]]] : f \in Ascending(n) } :
          n \in 0..MaxTasks }

\* the task lists a driver passes to checkPartialUnlockThreshold directly:
\* the threshold depends on the statuses only
ProbeLists ==
  { l \in TaskLists : \A i \in 1..Len(l) : l[i].difficulty = "medium" }

\* DEFAULT_CONFIG.partialUnlockThresholds
DefaultThresholds == << 50, 75 >>

\* the partialUnlockThresholds a driver configures
ThresholdConfigs == { DefaultThresholds, << 50, 25 >> }

ThresholdValues == UNION { { c[i] : i \in 1..Len(c) } : c \in ThresholdConfigs }

\* the callbacks a driver registers with setUnlockCallback
UnlockCallbacks == { 1 }

\* `null` as the result of checkPartialUnlockThreshold
NullThreshold == 0 - 1

\* Math.round of the non-negative rational num / den
Round(num, den) == (2 * num + den) \div (2 * den)

Completed(tasks) == SelectSeq(tasks, LAMBDA t : t.status = "completed")

\* evaluateUnlockCondition with Math.floor in place of Math.round
EvaluateUnlockConditionFloors(tasks) ==
  LET totalTasks     == Len(tasks)
      completedTasks == Len(Completed(tasks))
  IN  [ canUnlock |-> totalTasks > 0 /\ completedTasks = totalTasks,
        completedTasks |-> completedTasks,
        totalTasks |-> totalTasks,
        completionPercentage |->
          IF totalTasks > 0 THEN (completedTasks * 100) \div totalTasks
                            ELSE 0,
        remainingTasks |-> totalTasks - completedTasks ]

\* evaluateUnlockCondition(tasks)
EvaluateUnlockCondition(tasks) ==
  LET totalTasks     == Len(tasks)
      completedTasks == Len(Completed(tasks))
  IN  [ canUnlock |-> totalTasks > 0 /\ completedTasks = totalTasks,
        completedTasks |-> completedTasks,
        totalTasks |-> totalTasks,
        completionPercentage |->
          IF totalTasks > 0 THEN Round(completedTasks * 100, totalTasks)
                            ELSE 0,
        remainingTasks |-> totalTasks - completedTasks ]

\* the loop of calculateXPEarned over the completed tasks, from index i
RECURSIVE XPFrom(_, _)
XPFrom(done, i) ==
  IF i > Len(done)
    THEN 0
    ELSE LET d == done[i].difficulty
             \* baseXP = 100, times 0.75, 1.0 or 1.5, then Math.round
             baseXP == CASE d = "easy"   -> Round(100 * 3, 4)
                         [] d = "medium" -> Round(100 * 1, 1)
                         [] d = "hard"   -> Round(100 * 3, 2)
                         [] OTHER        -> Round(100, 1)
         IN  baseXP + XPFrom(done, i + 1)

\* calculateXPEarned without the filter on the status
CalculateXPEarnedOfAll(tasks) == XPFrom(tasks, 1)

\* calculateXPEarned(tasks)
CalculateXPEarned(tasks) == XPFrom(Completed(tasks), 1)

\* the first index from i on whose threshold is reached, 0 if none
RECURSIVE FirstReached(_, _, _, _, _)
FirstReached(thresholds, i, pct, prev, notified) ==
  IF i > Len(thresholds)
    THEN 0
    ELSE IF /\ pct >= thresholds[i]
            /\ prev < thresholds[i]
            /\ thresholds[i] \notin notified
      THEN i
      ELSE FirstReached(thresholds, i + 1, pct, prev, notified)

\* checkPartialUnlockThreshold without the notifiedThresholds test
CheckPartialUnlockThresholdForgetful(tasks, prev, notified, thresholds) ==
  LET pct == EvaluateUnlockCondition(tasks).completionPercentage
      i   == FirstReached(thresholds, 1, pct, prev, {})
  IN  IF i = 0 THEN NullThreshold ELSE thresholds[i]

\* checkPartialUnlockThreshold with `>` for `>=`
CheckPartialUnlockThresholdStrict(tasks, prev, notified, thresholds) ==
  LET pct == EvaluateUnlockCondition(tasks).completionPercentage
      i   == FirstReached(thresholds, 1, pct - 1, prev, notified)
  IN  IF i = 0 THEN NullThreshold ELSE thresholds[i]

\* checkPartialUnlockThreshold returning the lowest threshold reached, not
\* the first in configured order
CheckPartialUnlockThresholdLowest(tasks, prev, notified, thresholds) ==
  LET pct == EvaluateUnlockCondition(tasks).completionPercentage
      reached == { thresholds[i] : i \in { j \in 1..Len(thresholds) :
                     FirstReached(thresholds, j, pct, prev, notified) = j } }
  IN  IF reached = {} THEN NullThreshold
      ELSE CHOOSE T \in reached : \A U \in reached : T <= U

\* checkPartialUnlockThreshold(tasks): the threshold reached (it is then added
\* to notifiedThresholds) or null
CheckPartialUnlockThreshold(tasks, prev, notified, thresholds) ==
  LET pct == EvaluateUnlockCondition(tasks).completionPercentage
      i   == FirstReached(thresholds, 1, pct, prev, notified)
  IN  IF i = 0 THEN NullThreshold ELSE thresholds[i]

Notification(ty, msg, c, n, xp) ==
  [ type |-> ty, message |-> msg, completedTasks |-> c, totalTasks |-> n,
    xpEarned |-> xp ]

\* `null` as the result of processTaskCompletion; message holds the threshold
\* a partial_unlock message names, xpEarned = -1 is undefined
NoNotification == Notification("null", NullThreshold, 0, 0, 0 - 1)

\* the branches of processTaskCompletion
FullUnlock(tasks, condition, notified) ==
  [ notification |->
      Notification("full_unlock", NullThreshold, condition.completedTasks,
                   condition.totalTasks, CalculateXPEarned(tasks)),
    callback |-> TRUE,
    previous |-> condition.completionPercentage,
    notified |-> notified ]

PartialUnlock(reached, condition, notified) ==
  [ notification |->
      Notification("partial_unlock", reached, condition.completedTasks,
                   condition.totalTasks, 0 - 1),
    callback |-> TRUE,
    previous |-> condition.completionPercentage,
    notified |-> notified \cup {reached} ]

\* the progress_update branch handing its notification to the callback
ProgressUpdateNotifies(condition, prev, notified) ==
  IF condition.completionPercentage # prev
    THEN [ notification |->
             Notification("progress_update", NullThreshold,
                          condition.completedTasks, condition.totalTasks,
                          0 - 1),
           callback |-> TRUE,
           previous |-> condition.completionPercentage,
           notified |-> notified ]
    ELSE [ notification |-> NoNotification, callback |-> FALSE,
           previous |-> prev, notified |-> notified ]

ProgressUpdate(condition, prev, notified) ==
  IF condition.completionPercentage # prev
    THEN [ notification |->
             Notification("progress_update", NullThreshold,
                          condition.completedTasks, condition.totalTasks,
                          0 - 1),
           callback |-> FALSE,
           previous |-> condition.completionPercentage,
           notified |-> notified ]
    ELSE [ notification |-> NoNotification, callback |-> FALSE,
           previous |-> prev, notified |-> notified ]

\* processTaskCompletion checking the thresholds before the full unlock
ProcessOutcomeThresholdFirst(tasks, prev, notified, thresholds) ==
  LET condition == EvaluateUnlockCondition(tasks)
      reached   == CheckPartialUnlockThreshold(tasks, prev, notified,
                                               thresholds)
  IN  IF reached # NullThreshold
        THEN PartialUnlock(reached, condition, notified)
      ELSE IF condition.canUnlock
        THEN FullUnlock(tasks, condition, notified)
      ELSE ProgressUpdate(condition, prev, notified)

\* processTaskCompletion leaving previousCompletionPercentage as it was
\* when a threshold is reached
ProcessOutcomeStalePrevious(tasks, prev, notified, thresholds) ==
  LET condition == EvaluateUnlockCondition(tasks)
      reached   == CheckPartialUnlockThreshold(tasks, prev, notified,
                                               thresholds)
  IN  IF condition.canUnlock
        THEN FullUnlock(tasks, condition, notified)
      ELSE IF reached # NullThreshold
        THEN [PartialUnlock(reached, condition, notified)
                EXCEPT !.previous = prev]
      ELSE ProgressUpdate(condition, prev, notified)

\* processTaskCompletion(tasks) as a function of the tracking state: the
\* notification returned, whether the callback slot is invoked with it, and
\* the tracking state left behind
ProcessOutcome(tasks, prev, notified, thresholds) ==
  LET condition == EvaluateUnlockCondition(tasks)
      reached   == CheckPartialUnlockThreshold(tasks, prev, notified,
                                               thresholds)
  IN  IF condition.canUnlock
        THEN FullUnlock(tasks, condition, notified)
      ELSE IF reached # NullThreshold
        THEN PartialUnlock(reached, condition, notified)
      ELSE ProgressUpdate(condition, prev, notified)

VARIABLES
  partialUnlockThresholds,      \* config.partialUnlockThresholds
  onUnlockCallback,             \* callback slot: a callback id, 0 = null
  previousCompletionPercentage, \* this.previousCompletionPercentage
  notifiedThresholds,           \* this.notifiedThresholds
  lastNotification,             \* history: what processTaskCompletion returned in the last step
  delivery,                     \* history: the callback invocation of the last step
  call,                         \* history: the task list of the call of the last step, counted
  repeat,                       \* history: the call before had an equal task list
  fresh,                        \* history: the epoch has seen no call yet
  emitted,                      \* history: partial_unlock notifications per threshold in the epoch
  notifiedEarlier               \* history: an earlier epoch returned a partial_unlock for the first default threshold

unlockVars ==
  << partialUnlockThresholds, onUnlockCallback, previousCompletionPercentage,
     notifiedThresholds, lastNotification, delivery, call, repeat, fresh,
     emitted, notifiedEarlier >>

\* ------------------------------------------------------------------------
\* State of the focus mode store
\* (src/src/renderer/stores/sticky-note-store.ts, useFocusModeStore)
\* ------------------------------------------------------------------------
VARIABLES
  now,                          \* Date.now()
  isActive,                     \* state.isActive
  startedAt,                    \* state.startedAt, 0 = null
  totalFocusTime,               \* state.totalFocusTime
  currentSessionTime,           \* state.currentSessionTime
  restrictedAppList,            \* state.restrictedApps
  sessions,                     \* state.sessions
  lastEmergencyUnlock,          \* state.lastEmergencyUnlock, 0 = null
  lastOp,                       \* history: the store action of the last step and what it returned
  unlockedAt                    \* history: when emergencyUnlock last returned true, 0 = never

\* the fields of the store
storeState ==
  << isActive, startedAt, totalFocusTime, currentSessionTime,
     restrictedAppList, sessions, lastEmergencyUnlock >>

focusVars == << now, storeState, lastOp, unlockedAt >>

\* ------------------------------------------------------------------------
\* A detectRestrictedProcesses call on its own
\* ------------------------------------------------------------------------
VARIABLES
  detection                     \* the inputs of the call and what it returned

\* ------------------------------------------------------------------------
\* State of the specifications of single operations
\* ------------------------------------------------------------------------
VARIABLES
  pollIntervalMs,   \* ProcessMonitor: config.pollIntervalMs
  lastInterval,     \* history: the argument of the last setPollInterval call
  evaluation,       \* a task list and what the UnlockService computed from it
  twin,             \* two UnlockService instances given the same calls
  verdicts          \* a task list and what each component says of it

unitVars == << pollIntervalMs, lastInterval, evaluation, twin, verdicts >>

vars == << monitorVars, unlockVars, focusVars, detection, unitVars >>

\* no terminateProcess call returned in the last step
NoTermination ==
  [ returned |-> FALSE, argPid |-> 0, argName |-> "",
    result |-> [success |-> FALSE, pid |-> 0, processName |-> "", error |-> ""],
    reqs |-> << >>, settled |-> "", reportedTo |-> 0,
    reported |-> [success |-> FALSE, pid |-> 0, processName |-> "", error |-> ""],
    running |-> FALSE, supplied |-> 0 ]

\* no terminateProcess call was made in the last step
NoCall ==
  [ called |-> FALSE, pid |-> 0, announcedTo |-> 0, announcedPid |-> 0,
    running |-> FALSE, supplied |-> 0 ]

NoTick ==
  [ id |-> 0, apps |-> << >>, phase |-> "none", detected |-> << >>, idx |-> 0,
    reqs |-> << >>, stopped |-> FALSE ]

\* ------------------------------------------------------------------------
\* getRunningProcesses / detectRestrictedProcesses
\* ------------------------------------------------------------------------
\* one ProcessInfo per parsed row; an OS failure yields the empty list
GetRunningProcesses(out) ==
  IF out.ok
    THEN [ i \in 1..Len(out.rows) |->
             [ pid |-> out.rows[i].pid,
               name |-> StripExe(out.rows[i].name),
               executableName |-> ToLowerCase(out.rows[i].name) ] ]
    ELSE << >>

\* the inner loop from entry k on: true at the first entry that matches
\* (`detected.push(process); break`)
RECURSIVE MatchesFrom(_, _, _)
MatchesFrom(process, enabledApps, k) ==
  IF k > Len(enabledApps) THEN FALSE
  ELSE IF process.executableName = ToLowerCase(enabledApps[k].executableName)
    THEN TRUE
  ELSE MatchesFrom(process, enabledApps, k + 1)

\* the outer loop from running process i on
RECURSIVE DetectFrom(_, _, _, _)
DetectFrom(running, enabledApps, i, detected) ==
  IF i > Len(running) THEN detected
  ELSE DetectFrom(running, enabledApps, i + 1,
                  IF MatchesFrom(running[i], enabledApps, 1)
                    THEN Append(detected, running[i])
                    ELSE detected)

\* the inner loop without its `break`: one push per matching entry
RECURSIVE PushesFrom(_, _, _, _)
PushesFrom(process, enabledApps, k, detected) ==
  IF k > Len(enabledApps) THEN detected
  ELSE PushesFrom(process, enabledApps, k + 1,
                  IF process.executableName
                       = ToLowerCase(enabledApps[k].executableName)
                    THEN Append(detected, process)
                    ELSE detected)

RECURSIVE DetectNoBreakFrom(_, _, _, _)
DetectNoBreakFrom(running, enabledApps, i, detected) ==
  IF i > Len(running) THEN detected
  ELSE DetectNoBreakFrom(running, enabledApps, i + 1,
                         PushesFrom(running[i], enabledApps, 1, detected))

\* detectRestrictedProcesses without the `break`
DetectRestrictedProcessesNoBreak(running, restrictedApps) ==
  LET enabledApps == SelectSeq(restrictedApps, LAMBDA app : app.isEnabled)
  IN  DetectNoBreakFrom(running, enabledApps, 1, << >>)

\* detectRestrictedProcesses(restrictedApps) on the scanned list `running`
DetectRestrictedProcesses(running, restrictedApps) ==
  LET enabledApps == SelectSeq(restrictedApps, LAMBDA app : app.isEnabled)
  IN  DetectFrom(running, enabledApps, 1, << >>)

\* ------------------------------------------------------------------------
\* terminateProcess(pid, processName)
\* ------------------------------------------------------------------------
TerminationResult(s, p, n, e) ==
  [success |-> s, pid |-> p, processName |-> n, error |-> e]

\* the request terminateProcess issues first
FirstRequest(graceful) == IF graceful THEN "graceful" ELSE "forced"

\* terminateProcess without the escalation: a failed graceful request is
\* reported as the failure
TerminateProcessNoEscalation(kind, out, p, n) ==
  IF out = "ok"
    THEN [done |-> TRUE, result |-> TerminationResult(TRUE, p, n, "")]
    ELSE [done |-> TRUE, result |-> TerminationResult(FALSE, p, n, out)]

\* terminateProcess special-casing a target that has already exited
TerminateProcessGoneIsSuccess(kind, out, p, n) ==
  IF out = "ok" \/ (kind = "forced" /\ out = "Process not found")
    THEN [done |-> TRUE, result |-> TerminationResult(TRUE, p, n, "")]
    ELSE IF kind = "graceful"
      THEN [done |-> FALSE, result |-> TerminationResult(FALSE, p, n, "")]
      ELSE [done |-> TRUE, result |-> TerminationResult(FALSE, p, n, out)]

\* what terminateProcess does when the request `kind` has settled with `out`:
\* return a result (done) or go on to the forced request
TerminateProcessSettled(kind, out, p, n) ==
  IF out = "ok"
    THEN [done |-> TRUE, result |-> TerminationResult(TRUE, p, n, "")]
    ELSE IF kind = "graceful"
      THEN [done |-> FALSE, result |-> TerminationResult(FALSE, p, n, "")]
      ELSE [done |-> TRUE, result |-> TerminationResult(FALSE, p, n, out)]

\* ------------------------------------------------------------------------
\* The poll closure of startMonitoring, split at its awaits
\* ------------------------------------------------------------------------
\* the end of poll() without the setTimeout: no tick follows
EndTickNoRearm(t) ==
  /\ ticks' = ticks \ {t}
  /\ lastCall' = NoCall
  /\ UNCHANGED << timers, pollTimer >>

\* `if (this.isMonitoring) this.pollTimer = setTimeout(poll, ...)` and the
\* end of the tick t, whose record has become u
EndTick(t) ==
  /\ ticks' = ticks \ {t}
  /\ lastCall' = NoCall
  /\ IF isMonitoring
       THEN /\ timers' = timers \cup
                 { [id |-> t.id, apps |-> t.apps, armedAfterStop |-> t.stopped,
                    survivedStop |-> FALSE] }
            /\ pollTimer' = t.id
       ELSE UNCHANGED << timers, pollTimer >>

\* the loop body up to `await this.terminateProcess(...)` for detected[i]:
\* onDetected if the slot is set, then the first taskkill request
BeginProcess(t, u, i) ==
  LET process == u.detected[i]
      det     == onRestrictedProcessDetected
  IN  /\ ticks' = (ticks \ {t}) \cup
           { [u EXCEPT !.idx = i,
                       !.phase = FirstRequest(gracefulTerminationFirst),
                       !.reqs = << >>] }
      /\ lastCall' =
           [ called |-> TRUE, pid |-> process.pid, announcedTo |-> det,
             announcedPid |-> IF det # 0 THEN process.pid ELSE 0,
             running |-> isMonitoring, supplied |-> supplied.det ]
      /\ UNCHANGED << timers, pollTimer >>

\* poll() up to its first await: `if (!this.isMonitoring) return`, then the
\* tasklist query of getRunningProcesses is issued
BeginTick(restrictedApps, running) ==
  IF running
    THEN /\ ticks' = ticks \cup
              { [NoTick EXCEPT !.id = tickCount + 1,
                               !.apps = restrictedApps,
                               !.phase = "scan"] }
         /\ tickCount' = tickCount + 1
    ELSE UNCHANGED << ticks, tickCount >>

\* the loop body with an in-place retry: a failed terminateProcess is called
\* again for the same process
AfterTerminateRetries(t, reqs, out, result) ==
  LET process == t.detected[t.idx]
      term    == onProcessTerminated
  IN  /\ lastTermination' =
           [ returned |-> TRUE, argPid |-> process.pid,
             argName |-> process.name, result |-> result, reqs |-> reqs,
             settled |-> out,
             reportedTo |-> term,
             reported |-> IF term # 0 THEN result ELSE NoTermination.reported,
             running |-> isMonitoring, supplied |-> supplied.term ]
      /\ IF ~result.success
           THEN BeginProcess(t, t, t.idx)
         ELSE IF t.idx < Len(t.detected)
           THEN BeginProcess(t, t, t.idx + 1)
           ELSE EndTick(t)

\* the loop body after `await this.terminateProcess(...)` has returned
\* `result` to tick t: onTerminated if the slot is set, then the next
\* detected process or the end of the tick
AfterTerminate(t, reqs, out, result) ==
  LET process == t.detected[t.idx]
      term    == onProcessTerminated
  IN  /\ lastTermination' =
           [ returned |-> TRUE, argPid |-> process.pid,
             argName |-> process.name, result |-> result, reqs |-> reqs,
             settled |-> out,
             reportedTo |-> term,
             reported |-> IF term # 0 THEN result ELSE NoTermination.reported,
             running |-> isMonitoring, supplied |-> supplied.term ]
      /\ IF t.idx < Len(t.detected)
           THEN BeginProcess(t, t, t.idx + 1)
           ELSE EndTick(t)

\* ------------------------------------------------------------------------
\* Actions of the monitor
\* ------------------------------------------------------------------------
\* startMonitoring without the `if (this.isMonitoring)` guard
StartMonitoringUnguarded(restrictedApps, det, term) ==
  /\ UNCHANGED << unlockVars, focusVars, detection, unitVars >>
  /\ startCalls < MaxStarts
  /\ startCalls' = startCalls + 1
  /\ tickCount < MaxTicks
  /\ isMonitoring' = TRUE
  /\ onRestrictedProcessDetected' = (IF det THEN startCalls + 1 ELSE 0)
  /\ onProcessTerminated' = (IF term THEN startCalls + 1 ELSE 0)
  /\ supplied' = [det  |-> IF det THEN startCalls + 1 ELSE 0,
                  term |-> IF term THEN startCalls + 1 ELSE 0]
  /\ omitted' = (omitted \/ ~det \/ ~term)
  /\ BeginTick(restrictedApps, TRUE)
  /\ lastTermination' = NoTermination
  /\ lastCall' = NoCall
  /\ lastScan' = "none"
  /\ UNCHANGED << gracefulTerminationFirst, pollTimer, timers, failures >>

\* startMonitoring(restrictedApps, onDetected?, onTerminated?)
StartMonitoring(restrictedApps, det, term) ==
  /\ UNCHANGED << unlockVars, focusVars, detection, unitVars >>
  /\ startCalls < MaxStarts
  /\ startCalls' = startCalls + 1
  /\ IF isMonitoring
       THEN \* console.warn('Process monitor is already running'); return
            UNCHANGED << isMonitoring, onRestrictedProcessDetected,
                         onProcessTerminated, ticks, tickCount, supplied,
                         omitted >>
       ELSE /\ tickCount < MaxTicks
            /\ isMonitoring' = TRUE
            /\ onRestrictedProcessDetected' =
                 (IF det THEN startCalls + 1 ELSE 0)
            /\ onProcessTerminated' = (IF term THEN startCalls + 1 ELSE 0)
            /\ supplied' = [det  |-> IF det THEN startCalls + 1 ELSE 0,
                            term |-> IF term THEN startCalls + 1 ELSE 0]
            /\ omitted' = (omitted \/ ~det \/ ~term)
            /\ BeginTick(restrictedApps, TRUE)
  /\ lastTermination' = NoTermination
  /\ lastCall' = NoCall
  /\ lastScan' = "none"
  /\ UNCHANGED << gracefulTerminationFirst, pollTimer, timers, failures >>

\* stopMonitoring() leaving the callback slots as they are
StopMonitoringKeepsCallbacks ==
  /\ UNCHANGED << unlockVars, focusVars, detection, unitVars >>
  /\ isMonitoring' = FALSE
  /\ timers' = { [tm EXCEPT !.survivedStop = TRUE] :
                   tm \in { x \in timers : pollTimer = 0 \/ x.id # pollTimer } }
  /\ pollTimer' = 0
  /\ ticks' = { [t EXCEPT !.stopped = TRUE] : t \in ticks }
  /\ lastTermination' = NoTermination
  /\ supplied' = [det |-> 0, term |-> 0]
  /\ lastCall' = NoCall
  /\ lastScan' = "none"
  /\ failures' = [failures EXCEPT !.pids = {}]
  /\ UNCHANGED << gracefulTerminationFirst, startCalls, tickCount, omitted,
                  onRestrictedProcessDetected, onProcessTerminated >>

\* stopMonitoring() clearing the onRestrictedProcessDetected slot only
StopMonitoringKeepsTerminated ==
  /\ UNCHANGED << unlockVars, focusVars, detection, unitVars >>
  /\ isMonitoring' = FALSE
  /\ timers' = { [tm EXCEPT !.survivedStop = TRUE] :
                   tm \in { x \in timers : pollTimer = 0 \/ x.id # pollTimer } }
  /\ pollTimer' = 0
  /\ onRestrictedProcessDetected' = 0
  /\ ticks' = { [t EXCEPT !.stopped = TRUE] : t \in ticks }
  /\ lastTermination' = NoTermination
  /\ supplied' = [det |-> 0, term |-> 0]
  /\ lastCall' = NoCall
  /\ lastScan' = "none"
  /\ failures' = [failures EXCEPT !.pids = {}]
  /\ UNCHANGED << gracefulTerminationFirst, startCalls, tickCount, omitted,
                  onProcessTerminated >>

\* stopMonitoring()
StopMonitoring ==
  /\ UNCHANGED << unlockVars, focusVars, detection, unitVars >>
  /\ isMonitoring' = FALSE
  /\ timers' = { [tm EXCEPT !.survivedStop = TRUE] :
                   tm \in { x \in timers : pollTimer = 0 \/ x.id # pollTimer } }
  /\ pollTimer' = 0
  /\ onRestrictedProcessDetected' = 0
  /\ onProcessTerminated' = 0
  /\ ticks' = { [t EXCEPT !.stopped = TRUE] : t \in ticks }
  /\ lastTermination' = NoTermination
  /\ supplied' = [det |-> 0, term |-> 0]
  /\ lastCall' = NoCall
  /\ lastScan' = "none"
  /\ failures' = [failures EXCEPT !.pids = {}]
  /\ UNCHANGED << gracefulTerminationFirst, startCalls, tickCount, omitted >>

\* a pending timer fires and runs poll()
TimerFires(tm) ==
  /\ UNCHANGED << unlockVars, focusVars, detection, unitVars >>
  /\ tm \in timers
  /\ isMonitoring => tickCount < MaxTicks
  /\ timers' = timers \ {tm}
  /\ BeginTick(tm.apps, isMonitoring)
  /\ lastCall' = NoCall
  /\ lastTermination' = NoTermination
  /\ lastScan' = "none"
  /\ UNCHANGED << gracefulTerminationFirst, isMonitoring, pollTimer,
                  onRestrictedProcessDetected, onProcessTerminated,
                  startCalls, supplied, omitted, failures >>

\* the tasklist query of tick t settles, with no try/catch around exec in
\* getRunningProcesses: a failed query rejects poll(), which ends there
ScanSettlesFailureEscapes(t, out) ==
  /\ UNCHANGED << unlockVars, focusVars, detection, unitVars >>
  /\ t \in ticks
  /\ t.phase = "scan"
  /\ LET detected == DetectRestrictedProcesses(GetRunningProcesses(out),
                                               t.apps)
         u == [t EXCEPT !.detected = detected]
     IN  IF ~out.ok
           THEN /\ ticks' = ticks \ {t}
                /\ lastCall' = NoCall
                /\ UNCHANGED << timers, pollTimer >>
         ELSE IF Len(detected) > 0
           THEN BeginProcess(t, u, 1)
           ELSE EndTick(t)
  /\ lastTermination' = NoTermination
  /\ lastScan' = (IF failures.tracked /\ ~out.ok THEN "failed" ELSE "none")
  /\ UNCHANGED << gracefulTerminationFirst, isMonitoring,
                  onRestrictedProcessDetected, onProcessTerminated,
                  startCalls, tickCount, supplied, omitted, failures >>

\* the tasklist query of tick t settles: poll continues after
\* `await this.detectRestrictedProcesses(restrictedApps)`
ScanSettles(t, out) ==
  /\ UNCHANGED << unlockVars, focusVars, detection, unitVars >>
  /\ t \in ticks
  /\ t.phase = "scan"
  /\ LET detected == DetectRestrictedProcesses(GetRunningProcesses(out),
                                               t.apps)
         u == [t EXCEPT !.detected = detected]
     IN  IF Len(detected) > 0
           THEN BeginProcess(t, u, 1)
           ELSE EndTick(t)
  /\ lastTermination' = NoTermination
  /\ lastScan' = (IF failures.tracked /\ ~out.ok THEN "failed" ELSE "none")
  /\ UNCHANGED << gracefulTerminationFirst, isMonitoring,
                  onRestrictedProcessDetected, onProcessTerminated,
                  startCalls, tickCount, supplied, omitted, failures >>

\* a taskkill request of tick t settles: terminateProcess continues
KillSettles(t, out) ==
  /\ UNCHANGED << unlockVars, focusVars, detection, unitVars >>
  /\ t \in ticks
  /\ t.phase \in {"graceful", "forced"}
  /\ LET process == t.detected[t.idx]
         reqs    == Append(t.reqs, [kind |-> t.phase, ok |-> out = "ok"])
         r       == TerminateProcessSettled(t.phase, out, process.pid,
                                            process.name)
     IN  IF r.done
           THEN /\ AfterTerminate(t, reqs, out, r.result)
                /\ failures' =
                     IF ~failures.tracked \/ ~isMonitoring THEN failures
                     ELSE IF r.result.success
                       THEN [failures EXCEPT !.pids = @ \ {process.pid}]
                     ELSE [failures EXCEPT !.pids = @ \cup {process.pid}]
           ELSE /\ ticks' = (ticks \ {t}) \cup
                     { [t EXCEPT !.phase = "forced", !.reqs = reqs] }
                /\ lastTermination' = NoTermination
                /\ lastCall' = NoCall
                /\ UNCHANGED << timers, pollTimer, failures >>
  /\ lastScan' = "none"
  /\ UNCHANGED << gracefulTerminationFirst, isMonitoring,
                  onRestrictedProcessDetected, onProcessTerminated,
                  startCalls, tickCount, supplied, omitted >>

\* new ProcessMonitor(config)
InitMonitor ==
  /\ gracefulTerminationFirst \in BOOLEAN
  /\ isMonitoring = FALSE
  /\ pollTimer = 0
  /\ onRestrictedProcessDetected = 0
  /\ onProcessTerminated = 0
  /\ ticks = {}
  /\ timers = {}
  /\ startCalls = 0
  /\ tickCount = 0
  /\ supplied = [det |-> 0, term |-> 0]
  /\ omitted = FALSE
  /\ lastTermination = NoTermination
  /\ lastCall = NoCall
  /\ lastScan = "none"
  /\ failures = [tracked |-> FALSE, pids |-> {}]

\* new ProcessMonitor()
InitMonitorDefault ==
  /\ InitMonitor
  /\ gracefulTerminationFirst = TRUE

NextMonitor ==
  \/ \E restrictedApps \in RestrictionLists, det \in BOOLEAN,
          term \in BOOLEAN :
       StartMonitoring(restrictedApps, det, term)
  \/ StopMonitoring
  \/ \E tm \in timers : TimerFires(tm)
  \/ \E t \in ticks, out \in ScanOutcomes : ScanSettles(t, out)
  \/ \E t \in ticks, out \in KillOutcomes : KillSettles(t, out)

\* new ProcessMonitor(config), its scan failures and failed terminations
\* recorded in lastScan and failures
InitRetry ==
  /\ gracefulTerminationFirst \in BOOLEAN
  /\ isMonitoring = FALSE
  /\ pollTimer = 0
  /\ onRestrictedProcessDetected = 0
  /\ onProcessTerminated = 0
  /\ ticks = {}
  /\ timers = {}
  /\ startCalls = 0
  /\ tickCount = 0
  /\ supplied = [det |-> 0, term |-> 0]
  /\ omitted = FALSE
  /\ lastTermination = NoTermination
  /\ lastCall = NoCall
  /\ lastScan = "none"
  /\ failures = [tracked |-> TRUE, pids |-> {}]

\* the monitor driven with both callbacks supplied
NextRetry ==
  \/ \E restrictedApps \in RestrictionLists :
       StartMonitoring(restrictedApps, TRUE, TRUE)
  \/ StopMonitoring
  \/ \E tm \in timers : TimerFires(tm)
  \/ \E t \in ticks, out \in ScanOutcomes : ScanSettles(t, out)
  \/ \E t \in ticks, out \in KillOutcomes : KillSettles(t, out)

NoDelivery == [to |-> 0, arg |-> NoNotification]

NoProcessCall == [made |-> FALSE, total |-> 0, completed |-> 0]

Counted(tasks) ==
  [ made |-> TRUE, total |-> Len(tasks),
    completed |-> Cardinality({ i \in 1..Len(tasks) :
                                 tasks[i].status = "completed" }) ]

Bump(f, T) ==
  [f EXCEPT ![T] = IF f[T] < CountCap THEN f[T] + 1 ELSE CountCap]

\* processTaskCompletion(tasks)
ProcessTaskCompletion(tasks) ==
  \E o \in { ProcessOutcome(tasks, previousCompletionPercentage,
                             notifiedThresholds, partialUnlockThresholds) },
     c \in { Counted(tasks) } :
    LET n   == o.notification
        inv == o.callback /\ onUnlockCallback # 0
    IN  /\ previousCompletionPercentage' = o.previous
        /\ notifiedThresholds' = o.notified
        /\ lastNotification' = n
        /\ delivery' = IF inv THEN [to |-> onUnlockCallback, arg |-> n]
                              ELSE NoDelivery
        /\ call' = c
        /\ repeat' = (call = c)
        /\ fresh' = FALSE
        /\ emitted' = IF n.type = "partial_unlock"
                        THEN Bump(emitted, n.message) ELSE emitted
        /\ UNCHANGED << partialUnlockThresholds, onUnlockCallback,
                        notifiedEarlier >>
        /\ UNCHANGED << monitorVars, focusVars, detection, unitVars >>

\* what every other operation of the service leaves of the last call
Quiet ==
  /\ lastNotification' = NoNotification
  /\ delivery' = NoDelivery
  /\ call' = NoProcessCall
  /\ repeat' = FALSE

\* checkPartialUnlockThreshold(tasks) called on its own: the threshold it
\* returns is marked as notified, nothing else changes
CheckPartialUnlockThresholdCalled(tasks) ==
  \E reached \in { CheckPartialUnlockThreshold(tasks,
                       previousCompletionPercentage, notifiedThresholds,
                       partialUnlockThresholds) } :
    /\ notifiedThresholds' = IF reached = NullThreshold
                               THEN notifiedThresholds
                               ELSE notifiedThresholds \cup {reached}
    /\ fresh' = FALSE
    /\ Quiet
    /\ UNCHANGED << partialUnlockThresholds, onUnlockCallback,
                    previousCompletionPercentage, emitted, notifiedEarlier >>
    /\ UNCHANGED << monitorVars, focusVars, detection, unitVars >>

\* resetTracking() leaving notifiedThresholds as it is
ResetTrackingKeepsNotified ==
  /\ previousCompletionPercentage' = 0
  /\ notifiedThresholds' = notifiedThresholds
  /\ fresh' = TRUE
  /\ emitted' = [T \in ThresholdValues |-> 0]
  /\ notifiedEarlier' = (notifiedEarlier \/ emitted[DefaultThresholds[1]] > 0)
  /\ Quiet
  /\ UNCHANGED << partialUnlockThresholds, onUnlockCallback >>
  /\ UNCHANGED << monitorVars, focusVars, detection, unitVars >>

\* resetTracking()
ResetTracking ==
  /\ previousCompletionPercentage' = 0
  /\ notifiedThresholds' = {}
  /\ fresh' = TRUE
  /\ emitted' = [T \in ThresholdValues |-> 0]
  /\ notifiedEarlier' = (notifiedEarlier \/ emitted[DefaultThresholds[1]] > 0)
  /\ Quiet
  /\ UNCHANGED << partialUnlockThresholds, onUnlockCallback >>
  /\ UNCHANGED << monitorVars, focusVars, detection, unitVars >>

\* setUnlockCallback(callback)
SetUnlockCallback(callback) ==
  /\ onUnlockCallback' = callback
  /\ Quiet
  /\ UNCHANGED << partialUnlockThresholds, previousCompletionPercentage,
                  notifiedThresholds, fresh, emitted, notifiedEarlier >>
  /\ UNCHANGED << monitorVars, focusVars, detection, unitVars >>

\* clearUnlockCallback()
ClearUnlockCallback ==
  /\ onUnlockCallback' = 0
  /\ Quiet
  /\ UNCHANGED << partialUnlockThresholds, previousCompletionPercentage,
                  notifiedThresholds, fresh, emitted, notifiedEarlier >>
  /\ UNCHANGED << monitorVars, focusVars, detection, unitVars >>

\* updateConfig({ partialUnlockThresholds })
UpdateConfig(thresholds) ==
  /\ partialUnlockThresholds' = thresholds
  /\ Quiet
  /\ UNCHANGED << onUnlockCallback, previousCompletionPercentage,
                  notifiedThresholds, fresh, emitted, notifiedEarlier >>
  /\ UNCHANGED << monitorVars, focusVars, detection, unitVars >>

\* new UnlockService(config)
InitUnlock ==
  /\ partialUnlockThresholds \in ThresholdConfigs
  /\ onUnlockCallback = 0
  /\ previousCompletionPercentage = 0
  /\ notifiedThresholds = {}
  /\ lastNotification = NoNotification
  /\ delivery = NoDelivery
  /\ call = NoProcessCall
  /\ repeat = FALSE
  /\ fresh = TRUE
  /\ emitted = [T \in ThresholdValues |-> 0]
  /\ notifiedEarlier = FALSE

\* new UnlockService()
InitUnlockDefault ==
  /\ InitUnlock
  /\ partialUnlockThresholds = DefaultThresholds

NextUnlock ==
  \/ \E tasks \in TaskLists : ProcessTaskCompletion(tasks)
  \/ \E tasks \in ProbeLists : CheckPartialUnlockThresholdCalled(tasks)
  \/ ResetTracking
  \/ \E callback \in UnlockCallbacks : SetUnlockCallback(callback)
  \/ ClearUnlockCallback
  \/ \E thresholds \in ThresholdConfigs : UpdateConfig(thresholds)

\* ========================================================================
\* Focus mode store (src/src/renderer/stores/sticky-note-store.ts)
\* ========================================================================
RestrictedApp(id, name, executableName, en, preset) ==
  [ id |-> id, name |-> name, executableName |-> executableName,
    isEnabled |-> en, isPreset |-> preset ]

DEFAULT_RESTRICTED_APPS ==
  << RestrictedApp("steam", "Steam", "steam.exe", TRUE, TRUE),
     RestrictedApp("epic", "Epic Games", "EpicGamesLauncher.exe", TRUE, TRUE),
     RestrictedApp("discord", "Discord", "Discord.exe", FALSE, TRUE),
     RestrictedApp("spotify", "Spotify", "Spotify.exe", FALSE, TRUE) >>

\* initial state: emergencyUnlockCooldown, never written afterwards
emergencyUnlockCooldown == 30 * 60 * 1000

\* the latest time the model's clock reaches
MaxNow == ClockStart + MaxClockTicks * ClockStep

\* the arguments << wasNatural, tasksCompleted >> a driver passes to
\* stopFocusMode
StopArguments == { << TRUE, 2 >>, << FALSE, 1 >> }

\* the ids a driver passes to the restricted-app actions, and the id
\* generateId() gives an added app
CustomIds == { "custom1" }
PresetIds == { "steam" }
AppIds    == PresetIds \cup CustomIds

\* the FocusSession record stopFocusMode builds; its generated id is left out
FocusSession(s, e, d, tasksCompleted, wasNatural) ==
  [ startedAt |-> s, endedAt |-> e, duration |-> d,
    tasksCompleted |-> tasksCompleted, wasUnlockedNaturally |-> wasNatural ]

\* the fields stopFocusMode reads and writes
SessionFields ==
  [ isActive |-> isActive, startedAt |-> startedAt,
    currentSessionTime |-> currentSessionTime,
    totalFocusTime |-> totalFocusTime, sessions |-> sessions ]

\* stopFocusMode that leaves currentSessionTime as it is
StopFocusModeKeepsSessionTime(f, wasNatural, tasksCompleted, t) ==
  IF f.startedAt = 0
    THEN f
    ELSE LET duration == t - f.startedAt
             newSession == FocusSession(f.startedAt, t, duration,
                                        tasksCompleted, wasNatural)
         IN  [ isActive |-> FALSE, startedAt |-> 0,
               currentSessionTime |-> f.currentSessionTime,
               totalFocusTime |-> f.totalFocusTime + duration,
               sessions |-> Append(f.sessions, newSession) ]

\* stopFocusMode that takes the duration from currentSessionTime
StopFocusModeStaleDuration(f, wasNatural, tasksCompleted, t) ==
  IF f.startedAt = 0
    THEN f
    ELSE LET duration == f.currentSessionTime
             newSession == FocusSession(f.startedAt, t, duration,
                                        tasksCompleted, wasNatural)
         IN  [ isActive |-> FALSE, startedAt |-> 0,
               currentSessionTime |-> 0,
               totalFocusTime |-> f.totalFocusTime + duration,
               sessions |-> Append(f.sessions, newSession) ]

\* stopFocusMode without the `if (!startedAt) return`
StopFocusModeUnguarded(f, wasNatural, tasksCompleted, t) ==
  LET duration == t - f.startedAt
      newSession == FocusSession(f.startedAt, t, duration,
                                 tasksCompleted, wasNatural)
  IN  [ isActive |-> FALSE, startedAt |-> 0,
        currentSessionTime |-> 0,
        totalFocusTime |-> f.totalFocusTime + duration,
        sessions |-> Append(f.sessions, newSession) ]

\* stopFocusMode that puts the new record in front of the history
StopFocusModePrepends(f, wasNatural, tasksCompleted, t) ==
  IF f.startedAt = 0
    THEN f
    ELSE LET duration == t - f.startedAt
             newSession == FocusSession(f.startedAt, t, duration,
                                        tasksCompleted, wasNatural)
         IN  [ isActive |-> FALSE, startedAt |-> 0,
               currentSessionTime |-> 0,
               totalFocusTime |-> f.totalFocusTime + duration,
               sessions |-> << newSession >> \o f.sessions ]

\* stopFocusMode that adds currentSessionTime to totalFocusTime
StopFocusModeTotalsSessionTime(f, wasNatural, tasksCompleted, t) ==
  IF f.startedAt = 0
    THEN f
    ELSE LET duration == t - f.startedAt
             newSession == FocusSession(f.startedAt, t, duration,
                                        tasksCompleted, wasNatural)
         IN  [ isActive |-> FALSE, startedAt |-> 0,
               currentSessionTime |-> 0,
               totalFocusTime |-> f.totalFocusTime + f.currentSessionTime,
               sessions |-> Append(f.sessions, newSession) ]

\* stopFocusMode(wasNatural, tasksCompleted) at time t on the fields f;
\* `!startedAt` holds of null and of 0
StopFocusModeOn(f, wasNatural, tasksCompleted, t) ==
  IF f.startedAt = 0
    THEN f
    ELSE LET duration == t - f.startedAt
             newSession == FocusSession(f.startedAt, t, duration,
                                        tasksCompleted, wasNatural)
         IN  [ isActive |-> FALSE, startedAt |-> 0,
               currentSessionTime |-> 0,
               totalFocusTime |-> f.totalFocusTime + duration,
               sessions |-> Append(f.sessions, newSession) ]

\* canEmergencyUnlock() without the cooldown test
CanEmergencyUnlockIgnoresCooldown(active, last, t) ==
  IF ~active THEN FALSE ELSE TRUE

\* canEmergencyUnlock() that asks for more than the cooldown to have passed
CanEmergencyUnlockStrict(active, last, t) ==
  IF ~active THEN FALSE
  ELSE IF last = 0 THEN TRUE
  ELSE t - last > emergencyUnlockCooldown

\* canEmergencyUnlock() at time t; `!lastEmergencyUnlock` holds of null and 0
CanEmergencyUnlock(active, last, t) ==
  IF ~active THEN FALSE
  ELSE IF last = 0 THEN TRUE
  ELSE t - last >= emergencyUnlockCooldown

\* getEmergencyUnlockCooldownRemaining without the Math.max
GetEmergencyUnlockCooldownRemainingNoFloor(last, t) ==
  IF last = 0 THEN 0
  ELSE emergencyUnlockCooldown - (t - last)

\* getEmergencyUnlockCooldownRemaining() at time t
GetEmergencyUnlockCooldownRemaining(last, t) ==
  IF last = 0 THEN 0
  ELSE LET elapsed == t - last
       IN  IF emergencyUnlockCooldown - elapsed >= 0
             THEN emergencyUnlockCooldown - elapsed
             ELSE 0

\* what a step records of the store action it takes
Op(name, result, wasNatural, tasksCompleted) ==
  [ op |-> name, result |-> result, wasNatural |-> wasNatural,
    tasksCompleted |-> tasksCompleted ]

\* time passes
ClockAdvances ==
  /\ now < MaxNow
  /\ now' = now + ClockStep
  /\ lastOp' = Op("clock", FALSE, FALSE, 0)
  /\ UNCHANGED << storeState, unlockedAt >>
  /\ UNCHANGED << monitorVars, unlockVars, detection, unitVars >>

\* startFocusMode() that first closes a running session as stopFocusMode
\* would
StartFocusModeClosesRunning ==
  LET f == StopFocusModeOn(SessionFields, FALSE, 0, now)
  IN  /\ Len(f.sessions) <= MaxSessions
      /\ isActive' = TRUE
      /\ startedAt' = now
      /\ currentSessionTime' = 0
      /\ totalFocusTime' = f.totalFocusTime
      /\ sessions' = f.sessions
      /\ lastOp' = Op("startFocusMode", isActive, FALSE, 0)
      /\ UNCHANGED << now, restrictedAppList, lastEmergencyUnlock,
                      unlockedAt >>
      /\ UNCHANGED << monitorVars, unlockVars, detection, unitVars >>

\* startFocusMode(); the step records in lastOp.result whether a session was
\* running when it was called
StartFocusMode ==
  /\ isActive' = TRUE
  /\ startedAt' = now
  /\ currentSessionTime' = 0
  /\ lastOp' = Op("startFocusMode", isActive, FALSE, 0)
  /\ UNCHANGED << now, totalFocusTime, restrictedAppList, sessions,
                  lastEmergencyUnlock, unlockedAt >>
  /\ UNCHANGED << monitorVars, unlockVars, detection, unitVars >>

\* stopFocusMode(wasNatural, tasksCompleted)
StopFocusMode(wasNatural, tasksCompleted) ==
  LET f == StopFocusModeOn(SessionFields, wasNatural, tasksCompleted, now)
  IN  /\ Len(f.sessions) <= MaxSessions
      /\ isActive' = f.isActive
      /\ startedAt' = f.startedAt
      /\ currentSessionTime' = f.currentSessionTime
      /\ totalFocusTime' = f.totalFocusTime
      /\ sessions' = f.sessions
      /\ lastOp' = Op("stopFocusMode", FALSE, wasNatural, tasksCompleted)
      /\ UNCHANGED << now, restrictedAppList, lastEmergencyUnlock,
                      unlockedAt >>
      /\ UNCHANGED << monitorVars, unlockVars, detection, unitVars >>

\* updateSessionTime()
UpdateSessionTime ==
  /\ currentSessionTime' = IF ~isActive \/ startedAt = 0
                             THEN currentSessionTime
                             ELSE now - startedAt
  /\ lastOp' = Op("updateSessionTime", FALSE, FALSE, 0)
  /\ UNCHANGED << now, isActive, startedAt, totalFocusTime,
                  restrictedAppList, sessions, lastEmergencyUnlock,
                  unlockedAt >>
  /\ UNCHANGED << monitorVars, unlockVars, detection, unitVars >>

\* emergencyUnlock() that ends the session without recording the time of
\* the unlock
EmergencyUnlockLeavesNoStamp ==
  IF ~CanEmergencyUnlock(isActive, lastEmergencyUnlock, now)
    THEN /\ lastOp' = Op("emergencyUnlock", FALSE, FALSE, 0)
         /\ UNCHANGED << now, storeState, unlockedAt >>
         /\ UNCHANGED << monitorVars, unlockVars, detection, unitVars >>
    ELSE \E a \in 0..1 :
           LET t1 == now + a * ClockStep
               f  == StopFocusModeOn(SessionFields, FALSE, 0, t1)
           IN  /\ t1 <= MaxNow
               /\ Len(f.sessions) <= MaxSessions
               /\ isActive' = f.isActive
               /\ startedAt' = f.startedAt
               /\ currentSessionTime' = f.currentSessionTime
               /\ totalFocusTime' = f.totalFocusTime
               /\ sessions' = f.sessions
               /\ now' = t1
               /\ lastOp' = Op("emergencyUnlock", TRUE, FALSE, 0)
               /\ UNCHANGED << restrictedAppList, lastEmergencyUnlock,
                               unlockedAt >>
               /\ UNCHANGED << monitorVars, unlockVars, detection, unitVars >>

\* emergencyUnlock(): the clock may advance between the Date.now() of
\* canEmergencyUnlock, that of stopFocusMode and that of the final set
EmergencyUnlock ==
  IF ~CanEmergencyUnlock(isActive, lastEmergencyUnlock, now)
    THEN /\ lastOp' = Op("emergencyUnlock", FALSE, FALSE, 0)
         /\ UNCHANGED << now, storeState, unlockedAt >>
         /\ UNCHANGED << monitorVars, unlockVars, detection, unitVars >>
    ELSE \E a \in 0..1, b \in 0..1 :
           LET t1 == now + a * ClockStep
               t2 == t1 + b * ClockStep
               f  == StopFocusModeOn(SessionFields, FALSE, 0, t1)
           IN  /\ t2 <= MaxNow
               /\ Len(f.sessions) <= MaxSessions
               /\ isActive' = f.isActive
               /\ startedAt' = f.startedAt
               /\ currentSessionTime' = f.currentSessionTime
               /\ totalFocusTime' = f.totalFocusTime
               /\ sessions' = f.sessions
               /\ lastEmergencyUnlock' = t2
               /\ now' = t2
               /\ unlockedAt' = t2
               /\ lastOp' = Op("emergencyUnlock", TRUE, FALSE, 0)
               /\ UNCHANGED restrictedAppList
               /\ UNCHANGED << monitorVars, unlockVars, detection, unitVars >>

\* resetFocusMode()
ResetFocusMode ==
  /\ isActive' = FALSE
  /\ startedAt' = 0
  /\ currentSessionTime' = 0
  /\ lastEmergencyUnlock' = 0
  /\ lastOp' = Op("resetFocusMode", FALSE, FALSE, 0)
  /\ UNCHANGED << now, totalFocusTime, restrictedAppList, sessions,
                  unlockedAt >>
  /\ UNCHANGED << monitorVars, unlockVars, detection, unitVars >>

\* what the restricted-app actions leave alone
SessionUntouched ==
  /\ UNCHANGED << now, isActive, startedAt, totalFocusTime,
                  currentSessionTime, sessions, lastEmergencyUnlock,
                  unlockedAt >>
  /\ UNCHANGED << monitorVars, unlockVars, detection, unitVars >>

\* addRestrictedApp(app)
AddRestrictedApp(id) ==
  /\ Len(SelectSeq(restrictedAppList, LAMBDA app : ~app.isPreset))
       < MaxCustomApps
  /\ \A i \in 1..Len(restrictedAppList) : restrictedAppList[i].id # id
  /\ restrictedAppList' =
       Append(restrictedAppList,
              RestrictedApp(id, "Game", "game.exe", TRUE, FALSE))
  /\ lastOp' = Op("restrictedApps", FALSE, FALSE, 0)
  /\ SessionUntouched

\* removeRestrictedApp(id)
RemoveRestrictedApp(id) ==
  /\ restrictedAppList' =
       SelectSeq(restrictedAppList, LAMBDA app : app.id # id \/ app.isPreset)
  /\ lastOp' = Op("restrictedApps", FALSE, FALSE, 0)
  /\ SessionUntouched

\* toggleRestrictedApp(id)
ToggleRestrictedApp(id) ==
  /\ restrictedAppList' =
       [ i \in 1..Len(restrictedAppList) |->
           IF restrictedAppList[i].id = id
             THEN [restrictedAppList[i] EXCEPT !.isEnabled = ~@]
             ELSE restrictedAppList[i] ]
  /\ lastOp' = Op("restrictedApps", FALSE, FALSE, 0)
  /\ SessionUntouched

\* the ids of the entries of the store as created
DefaultIds ==
  { DEFAULT_RESTRICTED_APPS[i].id : i \in 1..Len(DEFAULT_RESTRICTED_APPS) }

\* the `updates` a caller passes to updateRestrictedApp: Partial<RestrictedApp>
Updates ==
  { [isEnabled |-> FALSE], [isPreset |-> FALSE], [isPreset |-> TRUE] }

\* `{ ...app, ...updates }`
Spread(app, updates) ==
  [ f \in DOMAIN app |->
      IF f \in DOMAIN updates THEN updates[f] ELSE app[f] ]

\* updateRestrictedApp(id, updates)
UpdateRestrictedApp(id, updates) ==
  /\ restrictedAppList' =
       [ i \in 1..Len(restrictedAppList) |->
           IF restrictedAppList[i].id = id
             THEN Spread(restrictedAppList[i], updates)
             ELSE restrictedAppList[i] ]
  /\ lastOp' = Op("restrictedApps", FALSE, FALSE, 0)
  /\ SessionUntouched

\* the restricted-app management of the store
NextApps ==
  \/ \E id \in CustomIds : AddRestrictedApp(id)
  \/ \E id \in AppIds : RemoveRestrictedApp(id)
  \/ \E id \in DefaultIds \cup CustomIds : ToggleRestrictedApp(id)
  \/ \E id \in AppIds, updates \in Updates :
       UpdateRestrictedApp(id, updates)

\* the emergency unlocks of the store and the passing of time
NextCooldown ==
  \/ ClockAdvances
  \/ StartFocusMode
  \/ EmergencyUnlock
  \/ ResetFocusMode

\* the store as created
InitFocus ==
  /\ now = ClockStart
  /\ isActive = FALSE
  /\ startedAt = 0
  /\ totalFocusTime = 0
  /\ currentSessionTime = 0
  /\ restrictedAppList = DEFAULT_RESTRICTED_APPS
  /\ sessions = << >>
  /\ lastEmergencyUnlock = 0
  /\ lastOp = [ op |-> "create", result |-> FALSE, wasNatural |-> FALSE,
                tasksCompleted |-> 0 ]
  /\ unlockedAt = 0

NextFocus ==
  \/ ClockAdvances
  \/ StartFocusMode
  \/ \E args \in StopArguments : StopFocusMode(args[1], args[2])
  \/ UpdateSessionTime
  \/ EmergencyUnlock
  \/ ResetFocusMode
  \/ \E id \in CustomIds : AddRestrictedApp(id)
  \/ \E id \in AppIds : RemoveRestrictedApp(id)

\* ========================================================================
\* detectRestrictedProcesses as a function of its inputs
\* ========================================================================
\* the image names of the rows and the executable names of the entries
RowNames == { "steam.exe", "Steam.exe", "Discord.EXE", "notepad.exe" }
AppNames == { "Steam.exe", "steam.exe", "discord.exe" }

\* tasklist outputs of up to MaxRows rows, the pid of a row being its position
MatcherOutputs ==
  { [ok |-> FALSE, rows |-> << >>] } \cup
  UNION { { [ok |-> TRUE, rows |-> [i \in 1..n |-> Row(f[i], i)]] :
            f \in [1..n -> RowNames] } : n \in 0..MaxRows }

\* restriction lists of up to MaxApps entries
MatcherLists ==
  UNION { [1..n -> { App(e, en) : e \in AppNames, en \in BOOLEAN }] :
          n \in 0..MaxApps }

NoDetection ==
  [ called |-> FALSE, out |-> [ok |-> FALSE, rows |-> << >>],
    running |-> << >>, restrictedApps |-> << >>, result |-> << >> ]

\* detectRestrictedProcesses(restrictedApps) with the tasklist query
\* answering `out`
DetectRestrictedProcessesCalled ==
  /\ ~detection.called
  /\ LET running == GetRunningProcesses(detection.out)
     IN  detection' =
           [ detection EXCEPT
               !.called = TRUE,
               !.running = running,
               !.result = DetectRestrictedProcesses(running,
                                                    detection.restrictedApps) ]
  /\ UNCHANGED << monitorVars, unlockVars, focusVars, unitVars >>

\* the inputs of the call
InitDetect ==
  \E out \in MatcherOutputs, restrictedApps \in MatcherLists :
    detection = [ NoDetection EXCEPT !.out = out,
                                    !.restrictedApps = restrictedApps ]

InitNoDetect == detection = NoDetection

NextDetect == DetectRestrictedProcessesCalled

\* ------------------------------------------------------------------------
\* The poll interval of a ProcessMonitor
\* ------------------------------------------------------------------------
\* the intervals a caller passes
Intervals == { k * IntervalStep : k \in 0..MaxIntervalSteps }

NoInterval == 0 - 1

Max(a, b) == IF a >= b THEN a ELSE b

\* `{ ...DEFAULT_CONFIG, ...config }`: the interval of the config given, or
\* the default when the config leaves it out
ConstructorIntervals == Intervals \cup { DefaultPollIntervalMs }

\* new ProcessMonitor(config)
InitConfig ==
  /\ pollIntervalMs \in ConstructorIntervals
  /\ lastInterval = NoInterval

\* new ProcessMonitor()
InitConfigDefault ==
  /\ pollIntervalMs = DefaultPollIntervalMs
  /\ lastInterval = NoInterval

\* setPollInterval(intervalMs)
SetPollInterval(intervalMs) ==
  /\ pollIntervalMs' = Max(MinPollIntervalMs, intervalMs)
  /\ lastInterval' = intervalMs
  /\ UNCHANGED << monitorVars, unlockVars, focusVars, detection, evaluation,
                  twin, verdicts >>

NextConfig == \E intervalMs \in Intervals : SetPollInterval(intervalMs)

\* ------------------------------------------------------------------------
\* evaluateUnlockCondition and calculateXPEarned on one task list
\* ------------------------------------------------------------------------
\* the task lists a caller passes, in every order
OrderedTaskLists ==
  UNION { [1..n -> { Tasks[k] : k \in 1..Len(Tasks) }] : n \in 0..MaxTasks }

NoXP == 0 - 1

NoCondition ==
  [ canUnlock |-> FALSE, completedTasks |-> 0 - 1, totalTasks |-> 0 - 1,
    completionPercentage |-> 0 - 1, remainingTasks |-> 0 - 1 ]

NoEvaluation == [tasks |-> << >>, xp |-> NoXP, condition |-> NoCondition]

\* xp = calculateXPEarned(tasks)
CalculateXPEarnedCalled ==
  /\ evaluation.xp = NoXP
  /\ evaluation' =
       [evaluation EXCEPT !.xp = CalculateXPEarned(evaluation.tasks)]
  /\ UNCHANGED << monitorVars, unlockVars, focusVars, detection,
                  pollIntervalMs, lastInterval, twin, verdicts >>

\* condition = evaluateUnlockCondition(tasks)
EvaluateUnlockConditionCalled ==
  /\ evaluation.condition = NoCondition
  /\ evaluation' =
       [evaluation EXCEPT
          !.condition = EvaluateUnlockCondition(evaluation.tasks)]
  /\ UNCHANGED << monitorVars, unlockVars, focusVars, detection,
                  pollIntervalMs, lastInterval, twin, verdicts >>

InitEvaluate ==
  /\ evaluation \in { [NoEvaluation EXCEPT !.tasks = l] :
                         l \in OrderedTaskLists }
  /\ InitConfigDefault

NextEvaluate == CalculateXPEarnedCalled \/ EvaluateUnlockConditionCalled

\* ------------------------------------------------------------------------
\* Two UnlockService instances side by side
\* ------------------------------------------------------------------------
\* new UnlockService({ autoUnlockOnComplete, showNotifications })
UnlockServiceOf(auto, show) ==
  [ config |-> [ autoUnlockOnComplete |-> auto, showNotifications |-> show,
                 partialUnlockThresholds |-> DefaultThresholds ],
    onUnlockCallback |-> 0,
    previousCompletionPercentage |-> 0,
    notifiedThresholds |-> {},
    returned |-> NoNotification,    \* history: the result of the last call
    delivered |-> NoDelivery ]      \* history: its callback invocation

\* processTaskCompletion with the production of notifications gated by
\* config.showNotifications
ProcessTaskCompletionGated(service, tasks) ==
  LET o   == ProcessOutcome(tasks, service.previousCompletionPercentage,
                            service.notifiedThresholds,
                            service.config.partialUnlockThresholds)
      inv == /\ o.callback /\ service.onUnlockCallback # 0
             /\ service.config.showNotifications
  IN  [service EXCEPT
         !.previousCompletionPercentage = o.previous,
         !.notifiedThresholds = o.notified,
         !.returned = IF service.config.showNotifications
                        THEN o.notification ELSE NoNotification,
         !.delivered = IF inv THEN [to |-> service.onUnlockCallback,
                                    arg |-> o.notification]
                              ELSE NoDelivery]

\* processTaskCompletion(tasks) on the instance `service`: of this.config
\* it reads partialUnlockThresholds only
ProcessTaskCompletionOn(service, tasks) ==
  LET o   == ProcessOutcome(tasks, service.previousCompletionPercentage,
                            service.notifiedThresholds,
                            service.config.partialUnlockThresholds)
      inv == o.callback /\ service.onUnlockCallback # 0
  IN  [service EXCEPT
         !.previousCompletionPercentage = o.previous,
         !.notifiedThresholds = o.notified,
         !.returned = o.notification,
         !.delivered = IF inv THEN [to |-> service.onUnlockCallback,
                                    arg |-> o.notification]
                              ELSE NoDelivery]

\* what the actions of the two instances leave alone
TwinOnly ==
  UNCHANGED << monitorVars, unlockVars, focusVars, detection,
               pollIntervalMs, lastInterval, evaluation, verdicts >>

\* both instances are given the same processTaskCompletion(tasks) call
TwinProcessTaskCompletion(tasks) ==
  /\ twin' = [ a |-> ProcessTaskCompletionOn(twin.a, tasks),
               b |-> ProcessTaskCompletionOn(twin.b, tasks) ]
  /\ TwinOnly

\* both instances are given the same setUnlockCallback(callback) call
TwinSetUnlockCallback(callback) ==
  /\ twin' = [ a |-> [twin.a EXCEPT !.onUnlockCallback = callback,
                                    !.returned = NoNotification,
                                    !.delivered = NoDelivery],
               b |-> [twin.b EXCEPT !.onUnlockCallback = callback,
                                    !.returned = NoNotification,
                                    !.delivered = NoDelivery] ]
  /\ TwinOnly

\* updateConfig({ autoUnlockOnComplete, showNotifications }) on the second
\* instance
TwinUpdateConfig(auto, show) ==
  /\ twin' = [ a |-> [twin.a EXCEPT !.returned = NoNotification,
                                    !.delivered = NoDelivery],
               b |-> [twin.b EXCEPT !.config.autoUnlockOnComplete = auto,
                                    !.config.showNotifications = show,
                                    !.returned = NoNotification,
                                    !.delivered = NoDelivery] ]
  /\ TwinOnly

\* two services as constructed by default
NoTwin == [a |-> UnlockServiceOf(TRUE, TRUE), b |-> UnlockServiceOf(TRUE, TRUE)]

\* new UnlockService() and new UnlockService({ flags })
InitTwin ==
  twin \in { [ a |-> UnlockServiceOf(TRUE, TRUE),
               b |-> UnlockServiceOf(auto, show) ] :
               auto \in BOOLEAN, show \in BOOLEAN }

NextTwin ==
  \/ \E tasks \in TaskLists : TwinProcessTaskCompletion(tasks)
  \/ \E callback \in UnlockCallbacks : TwinSetUnlockCallback(callback)
  \/ \E auto \in BOOLEAN, show \in BOOLEAN : TwinUpdateConfig(auto, show)

\* ------------------------------------------------------------------------
\* One task list put to every component that judges it
\* ------------------------------------------------------------------------
\* UnlockService.areAllTasksCompleted(tasks) counting a cancelled task as
\* done
AreAllTasksCompletedNonePending(tasks) ==
  IF Len(tasks) = 0 THEN FALSE
  ELSE \A i \in 1..Len(tasks) : tasks[i].status # "pending"

\* UnlockService.areAllTasksCompleted(tasks)
AreAllTasksCompleted(tasks) ==
  IF Len(tasks) = 0 THEN FALSE
  ELSE \A i \in 1..Len(tasks) : tasks[i].status = "completed"

\* the task store's areAllTasksCompleted() on a store holding `tasks`
TaskStoreAreAllTasksCompleted(tasks) ==
  IF Len(tasks) = 0 THEN FALSE
  ELSE \A i \in 1..Len(tasks) : tasks[i].status = "completed"

\* what db.getAllTasks() resolves to on a table holding `stored`: the rows,
\* or an error without data
GetAllTasks(ok, stored) ==
  IF ok THEN [success |-> TRUE, hasData |-> TRUE, data |-> stored]
        ELSE [success |-> FALSE, hasData |-> FALSE, data |-> << >>]

\* TaskService.areAllTasksCompleted() given the result of db.getAllTasks()
TaskServiceAreAllTasksCompleted(result) ==
  IF ~result.success \/ ~result.hasData THEN FALSE
  ELSE \A i \in 1..Len(result.data) : result.data[i].status = "completed"

\* long lists: some completed tasks followed by at least one task that is
\* not. At these lengths the doubles of `(completed / total) * 100` round
\* as the exact quotients do.
LongTaskLists ==
  { [i \in 1..LongTasks |-> IF i <= c THEN Tasks[4] ELSE rest] :
      c \in 0..(LongTasks - 1), rest \in { Tasks[1], Tasks[2] } }

\* the task lists put to the components
JudgedLists == OrderedTaskLists \cup LongTaskLists

\* tracking states of an UnlockService with the default thresholds:
\* as constructed, after 2 of 3 tasks, after a full unlock, and after 3 of 4
\* tasks followed by a full unlock
TrackingStates ==
  { [previous |-> 0, notified |-> {}],
    [previous |-> 67, notified |-> {50}],
    [previous |-> 100, notified |-> {}],
    [previous |-> 100, notified |-> {50}] }

NoVerdicts ==
  [ tasks |-> << >>, asked |-> {}, condition |-> NoCondition,
    unlockService |-> FALSE, taskStore |-> FALSE, taskService |-> FALSE,
    notification |-> "null" ]

VerdictsOnly ==
  UNCHANGED << monitorVars, unlockVars, focusVars, detection,
               pollIntervalMs, lastInterval, evaluation, twin >>

\* condition = unlockService.evaluateUnlockCondition(tasks)
ConditionAsked ==
  /\ "condition" \notin verdicts.asked
  /\ verdicts' =
       [verdicts EXCEPT !.asked = @ \cup {"condition"},
                        !.condition = EvaluateUnlockCondition(verdicts.tasks)]
  /\ VerdictsOnly

\* unlockService.areAllTasksCompleted(tasks)
UnlockServiceAsked ==
  /\ "unlockService" \notin verdicts.asked
  /\ verdicts' =
       [verdicts EXCEPT !.asked = @ \cup {"unlockService"},
                        !.unlockService = AreAllTasksCompleted(verdicts.tasks)]
  /\ VerdictsOnly

\* useTaskStore.getState().areAllTasksCompleted() with the list in the store
TaskStoreAsked ==
  /\ "taskStore" \notin verdicts.asked
  /\ verdicts' =
       [verdicts EXCEPT
          !.asked = @ \cup {"taskStore"},
          !.taskStore = TaskStoreAreAllTasksCompleted(verdicts.tasks)]
  /\ VerdictsOnly

\* await taskService.areAllTasksCompleted() with the list in the database,
\* whose query succeeds
TaskServiceAsked ==
  /\ "taskService" \notin verdicts.asked
  /\ verdicts' =
       [verdicts EXCEPT
          !.asked = @ \cup {"taskService"},
          !.taskService =
             TaskServiceAreAllTasksCompleted(GetAllTasks(TRUE,
                                                         verdicts.tasks))]
  /\ VerdictsOnly

\* unlockService.processTaskCompletion(tasks) in the tracking state
\* `tracking`: the type of the notification it returns
NotificationAsked(tracking) ==
  /\ "notification" \notin verdicts.asked
  /\ verdicts' =
       [verdicts EXCEPT
          !.asked = @ \cup {"notification"},
          !.notification =
             ProcessOutcome(verdicts.tasks, tracking.previous,
                            tracking.notified,
                            DefaultThresholds).notification.type]
  /\ VerdictsOnly

InitVerdicts ==
  verdicts \in { [NoVerdicts EXCEPT !.tasks = l] : l \in JudgedLists }

NextVerdicts ==
  \/ ConditionAsked
  \/ UnlockServiceAsked
  \/ TaskStoreAsked
  \/ TaskServiceAsked
  \/ \E tracking \in TrackingStates : NotificationAsked(tracking)

InitUnits ==
  /\ InitConfigDefault /\ evaluation = NoEvaluation /\ twin = NoTwin
  /\ verdicts = NoVerdicts

InitForTwin ==
  /\ InitMonitorDefault /\ InitUnlockDefault /\ InitFocus /\ InitNoDetect
  /\ InitConfigDefault /\ evaluation = NoEvaluation /\ InitTwin
  /\ verdicts = NoVerdicts

InitForVerdicts ==
  /\ InitMonitorDefault /\ InitUnlockDefault /\ InitFocus /\ InitNoDetect
  /\ InitConfigDefault /\ evaluation = NoEvaluation /\ twin = NoTwin
  /\ InitVerdicts

SpecVerdicts == InitForVerdicts /\ [][NextVerdicts]_vars

SpecTwin == InitForTwin /\ [][NextTwin]_vars

InitForEvaluate ==
  /\ InitMonitorDefault /\ InitUnlockDefault /\ InitFocus /\ InitNoDetect
  /\ InitEvaluate /\ twin = NoTwin /\ verdicts = NoVerdicts

SpecEvaluate == InitForEvaluate /\ [][NextEvaluate]_vars

InitForConfig ==
  /\ InitMonitor /\ InitUnlockDefault /\ InitFocus /\ InitNoDetect
  /\ InitConfig /\ evaluation = NoEvaluation /\ twin = NoTwin
  /\ verdicts = NoVerdicts

SpecConfig == InitForConfig /\ [][NextConfig]_vars

InitForMonitor ==
  InitMonitor /\ InitUnlockDefault /\ InitFocus /\ InitNoDetect /\ InitUnits

SpecMonitor == InitForMonitor /\ [][NextMonitor]_vars

InitForRetry ==
  InitRetry /\ InitUnlockDefault /\ InitFocus /\ InitNoDetect /\ InitUnits

SpecRetry == InitForRetry /\ [][NextRetry]_vars

InitForUnlock ==
  InitMonitorDefault /\ InitUnlock /\ InitFocus /\ InitNoDetect /\ InitUnits

SpecUnlock == InitForUnlock /\ [][NextUnlock]_vars

\* the callbacks of a driver that registers one callback after another
ReplacingCallbacks == { 1, 2 }

\* a driver that registers, replaces and clears the unlock callback between
\* processTaskCompletion calls
NextCallback ==
  \/ \E tasks \in TaskLists : ProcessTaskCompletion(tasks)
  \/ \E callback \in ReplacingCallbacks : SetUnlockCallback(callback)
  \/ ClearUnlockCallback
  \/ ResetTracking

InitForCallback ==
  InitMonitorDefault /\ InitUnlockDefault /\ InitFocus /\ InitNoDetect
  /\ InitUnits

SpecCallback == InitForCallback /\ [][NextCallback]_vars

InitForFocus ==
  /\ InitMonitorDefault /\ InitUnlockDefault /\ InitFocus /\ InitNoDetect
  /\ InitUnits

SpecFocus == InitForFocus /\ [][NextFocus]_vars

\* ------------------------------------------------------------------------
\* The focus session of the store and the monitor, side by side
\* ------------------------------------------------------------------------
\* the restriction list of the session: every entry enabled
SessionLists ==
  { l \in RestrictionLists : \A k \in 1..Len(l) : l[k].isEnabled }

\* the scans of the session: Steam is running, or nothing is
SessionScans ==
  { o \in ScanOutcomes : o.ok /\ (o.rows = << >> \/ o.rows[1].pid = 1) }

\* the session operations of the store and the operations and steps of the
\* monitor, as any caller may interleave them
NextSession ==
  \/ StartFocusMode
  \/ StopFocusMode(TRUE, 2)
  \/ EmergencyUnlock
  \/ \E restrictedApps \in SessionLists :
       StartMonitoring(restrictedApps, TRUE, TRUE)
  \/ StopMonitoring
  \/ \E tm \in timers : TimerFires(tm)
  \/ \E t \in ticks, out \in SessionScans : ScanSettles(t, out)
  \/ \E t \in ticks : KillSettles(t, "ok")

SpecSession == InitForFocus /\ [][NextSession]_vars

\* the replies of the OS to the polling loop: a scan fails or finds
\* Notepad and Steam, a taskkill succeeds or is denied
LiveScans ==
  { o \in ScanOutcomes : ~o.ok \/ (Len(o.rows) = 2 /\ o.rows[1].pid = 3) }
LiveKills == { "ok", "Access denied" }

TimerStep == \E tm \in timers : TimerFires(tm)
ScanStep  == \E t \in ticks, out \in LiveScans : ScanSettles(t, out)
KillStep  == \E t \in ticks, out \in LiveKills : KillSettles(t, out)

\* the monitor with an event loop that runs every due timer and an OS that
\* answers every call
NextLive ==
  \/ \E restrictedApps \in SessionLists :
       StartMonitoring(restrictedApps, TRUE, TRUE)
  \/ StopMonitoring
  \/ TimerStep
  \/ ScanStep
  \/ KillStep

SpecLive ==
  /\ InitForRetry /\ [][NextLive]_vars
  /\ WF_vars(TimerStep) /\ WF_vars(ScanStep) /\ WF_vars(KillStep)

SpecCooldown == InitForFocus /\ [][NextCooldown]_vars

SpecApps == InitForFocus /\ [][NextApps]_vars

InitForDetect ==
  /\ InitMonitorDefault /\ InitUnlockDefault /\ InitFocus /\ InitDetect
  /\ InitUnits

SpecDetect == InitForDetect /\ [][NextDetect]_vars

\* ========================================================================
\* Properties of the focus mode store
\* ========================================================================
\* C12: emergency unlock cooldown. An emergencyUnlock call that returns true
\* is made no earlier than one cooldown after the time the previous
\* successful emergencyUnlock recorded, whatever store actions lie between.
C12_CooldownBetweenUnlocks ==
  [][ ( /\ lastOp'.op = "emergencyUnlock" /\ lastOp'.result
        /\ unlockedAt # 0 )
      => now >= unlockedAt + emergencyUnlockCooldown ]_vars

\* the session is Active and the store records an emergency unlock less
\* than one cooldown ago
InsideCooldown ==
  /\ isActive
  /\ lastEmergencyUnlock # 0
  /\ now - lastEmergencyUnlock < emergencyUnlockCooldown

\* C13: emergencyUnlock called while the session is Inactive, or while
\* Active inside the cooldown window, returns false and leaves every field
\* of the store unchanged.
C13_RefusalChangesNothing ==
  [][ ( lastOp'.op = "emergencyUnlock" /\ (~isActive \/ InsideCooldown) )
      => ( ~lastOp'.result /\ UNCHANGED storeState ) ]_vars

\* emergencyUnlock was refused inside the cooldown window of an Active
\* session
C13_Witness ==
  /\ lastOp.op = "emergencyUnlock" /\ ~lastOp.result
  /\ InsideCooldown
  /\ Len(sessions) > 0

\* C14: lifecycle invariant. isActive = false implies startedAt = null and
\* currentSessionTime = 0; isActive = true implies startedAt is not null.
C14_Lifecycle ==
  /\ ~isActive => startedAt = 0 /\ currentSessionTime = 0
  /\ isActive => startedAt # 0

\* a session whose time had been refreshed was stopped
C14_Witness ==
  /\ lastOp.op = "stopFocusMode"
  /\ ~isActive
  /\ Len(sessions) > 0
  /\ sessions[Len(sessions)].duration > 0

\* C15: stopFocusMode(wasNatural, tasksCompleted) on an Active session
\* appends exactly one record (startedAt of the session, endedAt = now,
\* duration = endedAt - startedAt, the given arguments), adds that duration
\* to totalFocusTime and leaves the store Inactive.
C15_StopEndsSession ==
  [][ ( lastOp'.op = "stopFocusMode" /\ isActive )
      => ( /\ sessions' =
                Append(sessions,
                       [ startedAt |-> startedAt, endedAt |-> now,
                         duration |-> now - startedAt,
                         tasksCompleted |-> lastOp'.tasksCompleted,
                         wasUnlockedNaturally |-> lastOp'.wasNatural ])
           /\ totalFocusTime' = totalFocusTime + (now - startedAt)
           /\ ~isActive' /\ startedAt' = 0 /\ currentSessionTime' = 0
           /\ UNCHANGED << lastEmergencyUnlock, restrictedAppList >> ) ]_vars

\* a second session of positive length was stopped naturally after its time
\* had been refreshed earlier
C15_Witness ==
  /\ lastOp.op = "stopFocusMode" /\ lastOp.wasNatural
  /\ Len(sessions) = 2
  /\ sessions[2].wasUnlockedNaturally
  /\ sessions[2].duration > ClockStep
  /\ totalFocusTime > sessions[2].duration

\* C16: stopFocusMode on an Inactive session changes no field of the store.
C16_StopWhenInactive ==
  [][ ( lastOp'.op = "stopFocusMode" /\ ~isActive )
      => UNCHANGED storeState ]_vars

\* stopFocusMode was called with a history of one record that is not of that
\* call
C16_Witness ==
  /\ lastOp.op = "stopFocusMode"
  /\ ~isActive
  /\ Len(sessions) = 1
  /\ sessions[1].tasksCompleted # lastOp.tasksCompleted
  /\ lastEmergencyUnlock # 0

IsPrefix(h, g) ==
  /\ Len(h) <= Len(g)
  /\ \A i \in 1..Len(h) : g[i] = h[i]

Chronological(h) ==
  /\ \A i \in 1..Len(h) : h[i].startedAt <= h[i].endedAt
  /\ \A i \in 1..(Len(h) - 1) : h[i].endedAt <= h[i + 1].startedAt

\* C17: the session history is append-only and chronological. Every step
\* keeps the previous history as a prefix of the new one, every record has
\* startedAt <= endedAt, and of two consecutive records the earlier ends no
\* later than the later starts.
C17_AppendOnlyChronological ==
  [][ IsPrefix(sessions, sessions') /\ Chronological(sessions') ]_vars

\* two records, the second starting strictly after the first ended
C17_Witness ==
  /\ Len(sessions) = 2
  /\ sessions[1].startedAt < sessions[1].endedAt
  /\ sessions[1].endedAt < sessions[2].startedAt

\* ========================================================================
\* Properties of the UnlockService
\* ========================================================================
\* the per-task rewards of the specification
Reward(d) ==
  CASE d = "easy" -> 75 [] d = "medium" -> 100 [] d = "hard" -> 150

RECURSIVE RewardSum(_)
RewardSum(tasks) ==
  IF tasks = << >>
    THEN 0
    ELSE (IF Head(tasks).status = "completed"
            THEN Reward(Head(tasks).difficulty) ELSE 0)
         + RewardSum(Tail(tasks))

\* the task lists with at least one task and every task completed
CompleteLists ==
  { l \in TaskLists :
      Len(l) > 0 /\ \A i \in 1..Len(l) : l[i].status = "completed" }

CallComplete(c) == c.total > 0 /\ c.completed = c.total

\* C7: full unlock precedence. In every tracking state, processTaskCompletion
\* of a list with total > 0 and every task completed returns a full_unlock
\* notification (never partial_unlock, progress_update or null) whose
\* xpEarned is the sum of the per-task rewards, and hands it to the callback.
C7_FullUnlockPrecedence ==
  /\ \A l \in CompleteLists :
       LET o == ProcessOutcome(l, previousCompletionPercentage,
                               notifiedThresholds, partialUnlockThresholds)
       IN  /\ o.notification.type = "full_unlock"
           /\ o.notification.xpEarned = RewardSum(l)
           /\ o.notification.completedTasks = Len(l)
           /\ o.notification.totalTasks = Len(l)
           /\ o.callback
  /\ call.made /\ CallComplete(call) =>
       /\ lastNotification.type = "full_unlock"
       /\ lastNotification.xpEarned >= 75 * call.total
       /\ onUnlockCallback # 0 => delivery.arg = lastNotification

\* a full unlock was returned although no threshold had been notified
C7_Witness ==
  /\ call.made /\ call.total >= 2 /\ CallComplete(call)
  /\ lastNotification.type = "full_unlock"
  /\ notifiedThresholds = {}
  /\ delivery.to # 0

C9_AtMostOncePerEpoch ==
  /\ \A T \in ThresholdValues : emitted[T] <= 1
  /\ delivery.to # 0 => call.made /\ delivery.arg = lastNotification

\* a threshold was notified and the percentage has dropped below it again
C9_Witness ==
  \E T \in ThresholdValues :
    /\ emitted[T] = 1
    /\ call.made
    /\ previousCompletionPercentage < T

\* C11: resetTracking isolates sessions. Whenever an epoch begins, by
\* construction or by resetTracking, the tracking state is that of a fresh
\* instance (previousCompletionPercentage = 0, notifiedThresholds empty), and
\* the first call of every epoch that brings a not fully completed list to at
\* least the first configured threshold returns a partial_unlock naming it,
\* also when an earlier epoch has already notified that threshold.
C11_ResetIsolatesSessions ==
  [][ /\ fresh' => /\ previousCompletionPercentage' = 0
                   /\ notifiedThresholds' = {}
      /\ ( /\ fresh /\ call'.made /\ ~CallComplete(call')
            /\ previousCompletionPercentage' >= partialUnlockThresholds[1] )
         => ( /\ lastNotification'.type = "partial_unlock"
              /\ lastNotification'.message = partialUnlockThresholds[1] )
    ]_vars

\* the first default threshold is notified again in an epoch after a reset
C11_Witness ==
  /\ notifiedEarlier
  /\ call.made
  /\ lastNotification.type = "partial_unlock"
  /\ lastNotification.message = DefaultThresholds[1]
  /\ emitted[DefaultThresholds[1]] = 1

\* C10 (as claimed, for the first call of an epoch): every configured
\* threshold that a call on a not fully completed list moves the tracked
\* percentage across is named by the partial_unlock notification of that
\* call.
C10_EveryCrossingNotified ==
  [][ \A i \in 1..Len(partialUnlockThresholds) :
        LET T == partialUnlockThresholds[i]
        IN  ( /\ call'.made /\ ~CallComplete(call')
              /\ fresh
              /\ previousCompletionPercentage < T
              /\ previousCompletionPercentage' >= T )
            => ( /\ lastNotification'.type = "partial_unlock"
                 /\ lastNotification'.message = T ) ]_vars

\* the threshold at index j is not marked as notified and the step moves the
\* tracked percentage across it
NewlyCrossed(j) ==
  LET T == partialUnlockThresholds[j]
  IN  /\ T \notin notifiedThresholds
      /\ previousCompletionPercentage < T
      /\ previousCompletionPercentage' >= T

\* C10 (amended): if a call on a not fully completed list moves the tracked
\* percentage from below a configured threshold T to at least T while T is
\* not marked as notified, and no threshold earlier in the configured order
\* is crossed in the same way by that call, the call returns a partial_unlock
\* notification naming T, the only one for T in the epoch so far.
C10_FirstCrossedIsNotified ==
  [][ \A i \in 1..Len(partialUnlockThresholds) :
        ( /\ call'.made /\ ~CallComplete(call')
          /\ NewlyCrossed(i)
          /\ \A j \in 1..(i - 1) : ~NewlyCrossed(j) )
        => ( /\ lastNotification'.type = "partial_unlock"
             /\ lastNotification'.message = partialUnlockThresholds[i]
             /\ emitted'[partialUnlockThresholds[i]] = 1 ) ]_vars

\* the second configured threshold has been notified on being crossed
C10_Witness ==
  /\ call.made
  /\ lastNotification.type = "partial_unlock"
  /\ lastNotification.message = partialUnlockThresholds[2]

\* ========================================================================
\* Properties of the ProcessMonitor
\* ========================================================================
InFlight    == ticks
Terminating == { t \in ticks : t.phase \in {"graceful", "forced"} }

\* C1: at most one poll loop exists and ticks never overlap: there is never
\* more than one in-flight tick or pending re-arm timer, under any
\* interleaving of startMonitoring and stopMonitoring with in-flight OS calls.
C1_AtMostOneLoop ==
  Cardinality(InFlight) + Cardinality(timers) <= 1

\* C2: a re-arm timer pending at the time of a stopMonitoring call is
\* cancelled, and a tick in flight at the time of the stop never schedules a
\* further tick, whatever operations follow the stop.
C2_StopCancelsAndNoRearm ==
  \A tm \in timers : ~tm.survivedStop /\ ~tm.armedAfterStop

\* C3: the terminations of a tick run one after the other in scan order and
\* the events of different ticks never interleave: no two terminateProcess
\* calls are in flight at once, and a process is announced by onDetected
\* only in the step that issues its own termination.
C3_SequentialTerminations ==
  /\ Cardinality(Terminating) <= 1
  /\ lastCall.called /\ lastCall.announcedTo # 0 =>
       lastCall.announcedPid = lastCall.pid

C5_Escalation ==
  LET r == lastTermination
      q == r.reqs
      n == Len(q)
  IN  r.returned =>
        /\ r.result.pid = r.argPid
        /\ r.result.processName = r.argName
        /\ n >= 1
        /\ q[n].ok = (r.settled = "ok")
        /\ r.result.success = q[n].ok
        /\ r.result.error = (IF q[n].ok THEN "" ELSE r.settled)
        /\ IF gracefulTerminationFirst
             THEN /\ q[1].kind = "graceful"
                  /\ IF q[1].ok
                       THEN n = 1
                       ELSE n = 2 /\ q[2].kind = "forced"
             ELSE n = 1 /\ q[1].kind = "forced"

\* a graceful request failed and the forced request that followed succeeded
C5_Witness ==
  /\ lastTermination.returned
  /\ gracefulTerminationFirst
  /\ Len(lastTermination.reqs) = 2
  /\ ~lastTermination.reqs[1].ok
  /\ lastTermination.reqs[2].ok

\* C6 (as claimed): a termination whose last request fails because the
\* target process no longer exists returns success = true.
C6_GoneIsSuccess ==
  lastTermination.returned /\ lastTermination.settled = "Process not found"
    => lastTermination.result.success

\* C6 (amended): a termination whose last request fails because the target
\* process no longer exists is a failure like any other: terminateProcess
\* returns success = false with that failure's message as error.
C6_GoneIsFailure ==
  lastTermination.returned /\ lastTermination.settled = "Process not found"
    => /\ ~lastTermination.result.success
       /\ lastTermination.result.error = "Process not found"

\* the forced request for a process that has already exited has failed
C6_Witness ==
  /\ lastTermination.returned
  /\ lastTermination.settled = "Process not found"
  /\ lastTermination.reqs[Len(lastTermination.reqs)].kind = "forced"

\* C18: startMonitoring called while the monitor is Running changes nothing:
\* it starts no tick and no timer, issues no scan, and leaves isMonitoring,
\* the callback slots, the pending timer and the lists the running loop
\* captured as they are.
C18_StartWhileRunning ==
  [][ ( startCalls' = startCalls + 1 /\ isMonitoring )
      => UNCHANGED << isMonitoring, pollTimer, onRestrictedProcessDetected,
                      onProcessTerminated, ticks, timers, tickCount,
                      gracefulTerminationFirst >> ]_vars

\* two startMonitoring calls, one loop begun, its re-arm timer pending
C18_Witness ==
  /\ startCalls = 2
  /\ tickCount = 1
  /\ isMonitoring
  /\ timers # {}
  /\ ticks = {}

\* C19: after every stopMonitoring call the monitor is Idle, has no pending
\* timer and holds no callbacks, and a call made when Idle changes nothing.
C19_StopLeavesIdle ==
  [][ StopMonitoring
      => ( /\ ~isMonitoring'
           /\ pollTimer' = 0
           /\ timers' = {}
           /\ onRestrictedProcessDetected' = 0
           /\ onProcessTerminated' = 0
           /\ ~isMonitoring =>
                UNCHANGED << isMonitoring, pollTimer, timers,
                             onRestrictedProcessDetected,
                             onProcessTerminated >> ) ]_vars

\* an enabled entry of the list names the process
Restricted(process, restrictedApps) ==
  \E k \in 1..Len(restrictedApps) :
    /\ restrictedApps[k].isEnabled
    /\ process.executableName = ToLowerCase(restrictedApps[k].executableName)

\* C20: detectRestrictedProcesses returns exactly the running processes
\* whose executableName equals the lower-cased executableName of at least
\* one enabled restricted app, each once, in the scan order of the running
\* list; disabled entries never cause a match.
C20_Matching ==
  detection.called =>
    detection.result =
      SelectSeq(detection.running,
                LAMBDA process : Restricted(process, detection.restrictedApps))

\* of two scanned processes one is matched, by two enabled entries, and is
\* reported once
C20_Witness ==
  /\ detection.called
  /\ Len(detection.running) = 2
  /\ Len(detection.result) = 1
  /\ Len(detection.restrictedApps) = 2
  /\ \A k \in 1..2 :
       /\ detection.restrictedApps[k].isEnabled
       /\ ToLowerCase(detection.restrictedApps[k].executableName)
            = detection.result[1].executableName
  /\ detection.restrictedApps[1] # detection.restrictedApps[2]

\* the indexes of the configured thresholds that are not marked as notified
\* and that a call bringing the percentage to pct crosses
CrossedBy(pct) ==
  { j \in 1..Len(partialUnlockThresholds) :
      /\ partialUnlockThresholds[j] \notin notifiedThresholds
      /\ previousCompletionPercentage < partialUnlockThresholds[j]
      /\ pct >= partialUnlockThresholds[j] }

\* C30: in every tracking state, a processTaskCompletion call on a not
\* fully completed list that crosses several not yet notified thresholds
\* at once returns one partial_unlock, for the first of them in configured
\* order, hands it to the callback, adds that threshold and no other to
\* notifiedThresholds and sets previousCompletionPercentage to the new
\* percentage.
C30_OneThresholdPerCall ==
  \A l \in TaskLists :
    LET c   == Counted(l)
        pct == IF c.total = 0 THEN 0 ELSE Round(100 * c.completed, c.total)
        crossed == CrossedBy(pct)
        o   == ProcessOutcome(l, previousCompletionPercentage,
                              notifiedThresholds, partialUnlockThresholds)
    IN  Cardinality(crossed) >= 2 /\ ~CallComplete(c) =>
          LET first == CHOOSE j \in crossed : \A k \in crossed : j <= k
              T     == partialUnlockThresholds[first]
          IN  /\ o.notification.type = "partial_unlock"
              /\ o.notification.message = T
              /\ o.callback
              /\ o.notified = notifiedThresholds \cup {T}
              /\ o.previous = pct

\* the first call of an epoch has crossed both configured thresholds and
\* has notified and recorded the first of them only
C30_Witness ==
  /\ call.made /\ ~CallComplete(call)
  /\ Len(partialUnlockThresholds) = 2
  /\ lastNotification.type = "partial_unlock"
  /\ lastNotification.message = partialUnlockThresholds[1]
  /\ notifiedThresholds = { partialUnlockThresholds[1] }
  /\ previousCompletionPercentage >= partialUnlockThresholds[1]
  /\ previousCompletionPercentage >= partialUnlockThresholds[2]
  /\ \A T \in ThresholdValues :
       emitted[T] = IF T = partialUnlockThresholds[1] THEN 1 ELSE 0

\* ------------------------------------------------------------------------
\* Scan failures and failed terminations (SpecRetry)
\* ------------------------------------------------------------------------
\* C21: a failed OS process query makes getRunningProcesses return the empty
\* list; the tick whose scan failed invokes no callback and issues no
\* termination request, and if the monitor is still Running the next tick
\* is scheduled as after any other tick.
C21_ScanFailureNonFatal ==
  /\ \A out \in ScanOutcomes : ~out.ok => GetRunningProcesses(out) = << >>
  /\ [][ lastScan' = "failed"
         => ( /\ lastCall' = NoCall
              /\ lastTermination' = NoTermination
              /\ Terminating' = Terminating
              /\ \E t \in ticks :
                   /\ t.phase = "scan"
                   /\ ticks' = ticks \ {t}
                   /\ IF isMonitoring
                        THEN /\ pollTimer' = t.id
                             /\ \E tm \in timers' \ timers :
                                  /\ timers' = timers \cup {tm}
                                  /\ tm.id = t.id
                                  /\ tm.apps = t.apps
                        ELSE UNCHANGED << timers, pollTimer >> ) ]_vars

\* a scan has just failed in a running monitor and the next tick is armed
C21_Witness ==
  /\ lastScan = "failed"
  /\ isMonitoring
  /\ \E tm \in timers : tm.id = pollTimer

\* the OS requests of one terminateProcess call: one request, or a failed
\* graceful request followed by one forced request
OneCall(reqs) ==
  \/ Len(reqs) = 1
  \/ /\ Len(reqs) = 2
     /\ reqs[1].kind = "graceful" /\ ~reqs[1].ok
     /\ reqs[2].kind = "forced"

\* C22: a failed termination is not retried inside the tick: each
\* terminateProcess call issues at most one graceful and one forced request
\* and the call after a failed one is for another process; while the
\* monitor is Running, every tick whose scan lists restricted processes
\* attempts the termination of each of them, whatever happened before.
C22_RetryByRepolling ==
  [][ /\ lastTermination'.returned =>
           /\ OneCall(lastTermination'.reqs)
           /\ ~lastTermination'.result.success /\ lastCall'.called =>
                lastCall'.pid # lastTermination'.argPid
      /\ \A t \in ticks, out \in ScanOutcomes :
           ( /\ isMonitoring /\ t.phase = "scan" /\ t \notin ticks'
             /\ ScanSettles(t, out) ) =>
             LET running == GetRunningProcesses(out)
                 listed  == { i \in 1..Len(running) :
                                Restricted(running[i], t.apps) }
             IN  listed # {} =>
                   \E u \in ticks' :
                     /\ u.id = t.id
                     /\ u \in Terminating'
                     /\ { u.detected[i].pid : i \in 1..Len(u.detected) }
                          = { running[i].pid : i \in listed }
                     /\ u.idx = 1
                     /\ lastCall'.called
                     /\ lastCall'.pid = u.detected[1].pid
      /\ \A t \in Terminating :
           lastTermination'.returned /\ t \notin ticks' =>
             IF t.idx < Len(t.detected)
               THEN /\ lastCall'.called
                    /\ lastCall'.pid = t.detected[t.idx + 1].pid
               ELSE ~lastCall'.called ]_vars

\* a process whose termination failed earlier in this run is listed again
\* by a later scan and its termination is attempted again
C22_Witness ==
  /\ isMonitoring
  /\ lastCall.called
  /\ lastCall.pid \in failures.pids

\* ------------------------------------------------------------------------
\* Properties of the poll interval (SpecConfig)
\* ------------------------------------------------------------------------
\* C23: whatever config is given to the constructor and whatever values
\* are passed to setPollInterval, the poll interval of the configuration
\* is at least 500 ms in every reachable state.
C23_IntervalFloor == pollIntervalMs >= MinPollIntervalMs

\* the setter alone keeps the floor: after a setPollInterval call the
\* interval is the larger of 500 and the value passed
C23_SetterClamps ==
  lastInterval # NoInterval =>
    /\ pollIntervalMs >= MinPollIntervalMs
    /\ pollIntervalMs = Max(MinPollIntervalMs, lastInterval)
    /\ lastInterval >= MinPollIntervalMs => pollIntervalMs = lastInterval

\* ------------------------------------------------------------------------
\* Properties of the pure functions of the UnlockService (SpecEvaluate)
\* ------------------------------------------------------------------------
\* the number of completed tasks of difficulty d in the list
CompletedOf(tasks, d) ==
  Cardinality({ i \in 1..Len(tasks) :
                  tasks[i].status = "completed" /\ tasks[i].difficulty = d })

\* C24: calculateXPEarned(tasks) is the sum over the completed tasks of 75
\* for easy, 100 for medium and 150 for hard; pending and cancelled tasks
\* contribute nothing, so every list with the same completed tasks, in any
\* order and with any other tasks, gives the same result.
C24_XPEarned ==
  evaluation.xp # NoXP =>
    /\ evaluation.xp = 75 * CompletedOf(evaluation.tasks, "easy")
                       + 100 * CompletedOf(evaluation.tasks, "medium")
                       + 150 * CompletedOf(evaluation.tasks, "hard")
    /\ \A l \in OrderedTaskLists :
         (\A d \in Difficulties :
            CompletedOf(l, d) = CompletedOf(evaluation.tasks, d))
           => CalculateXPEarned(l) = evaluation.xp

\* one completed task of each difficulty, not in the order of the rewards,
\* gives 325
C24_Witness ==
  /\ evaluation.xp = 325
  /\ Len(evaluation.tasks) = 3
  /\ evaluation.tasks[1].difficulty = "hard"
  /\ evaluation.tasks[3].difficulty = "medium"

C26_PresetsNeverRemoved ==
  \A id \in DefaultIds :
    \E i \in 1..Len(restrictedAppList) : restrictedAppList[i].id = id

\* no single operation takes an entry out of the list while its isPreset
\* is set, and the list only ever loses entries whose isPreset is clear
C26_RemoveKeepsPresets ==
  [][ \A i \in 1..Len(restrictedAppList) :
        restrictedAppList[i].isPreset =>
          \E j \in 1..Len(restrictedAppList') :
            restrictedAppList'[j].id = restrictedAppList[i].id ]_vars

\* ------------------------------------------------------------------------
\* Properties of the emergency-unlock cooldown (SpecCooldown)
\* ------------------------------------------------------------------------
\* C27: getEmergencyUnlockCooldownRemaining() is 0 when the store records
\* no emergency unlock and otherwise the cooldown less the time since
\* lastEmergencyUnlock, never below 0; it is at most the cooldown, it is 0
\* from lastEmergencyUnlock + cooldown on, and no step other than a
\* successful emergency unlock increases it.
C27_CooldownRemaining ==
  [][ LET before == GetEmergencyUnlockCooldownRemaining(lastEmergencyUnlock,
                                                        now)
          after  == GetEmergencyUnlockCooldownRemaining(lastEmergencyUnlock',
                                                        now')
          left   == emergencyUnlockCooldown - (now' - lastEmergencyUnlock')
      IN  /\ after >= 0
          /\ after <= emergencyUnlockCooldown
          /\ lastEmergencyUnlock' = 0 => after = 0
          /\ unlockedAt' = 0 => after = 0
          /\ lastEmergencyUnlock' # 0 =>
               /\ after >= left
               /\ after = 0 \/ after = left
               /\ now' >= lastEmergencyUnlock' + emergencyUnlockCooldown
                    => after = 0
          /\ ~(lastOp'.op = "emergencyUnlock" /\ lastOp'.result)
               => after <= before ]_vars

\* time has passed since an emergency unlock and part of the cooldown is left
C27_Witness ==
  /\ lastOp.op = "clock"
  /\ lastEmergencyUnlock # 0
  /\ now > lastEmergencyUnlock
  /\ GetEmergencyUnlockCooldownRemaining(lastEmergencyUnlock, now) > 0
  /\ GetEmergencyUnlockCooldownRemaining(lastEmergencyUnlock, now)
       < emergencyUnlockCooldown

\* ------------------------------------------------------------------------
\* Properties of the session and the monitor together (SpecSession)
\* ------------------------------------------------------------------------
\* C28: whenever the focus session has been stopped, by stopFocusMode or
\* by a successful emergencyUnlock, the restriction poller is stopped as
\* well: no poll loop is scanning or terminating processes while the
\* session is Inactive because of a stop.
C28_StopLiftsRestriction ==
  ~isActive /\ lastOp.op \in {"stopFocusMode", "emergencyUnlock"}
            /\ Len(sessions) > 0
    => /\ ~isMonitoring
       /\ ticks = {}
       /\ timers = {}

\* ------------------------------------------------------------------------
\* Properties of two UnlockService instances (SpecTwin)
\* ------------------------------------------------------------------------
\* C29: two UnlockService instances that differ only in
\* config.showNotifications and config.autoUnlockOnComplete return the same
\* notifications, make the same callback invocations and reach the same
\* tracking states on every sequence of processTaskCompletion calls.
C29_FlagsDoNotGate ==
  twin.a.config.partialUnlockThresholds = twin.b.config.partialUnlockThresholds
    => /\ twin.a.returned = twin.b.returned
       /\ twin.a.delivered = twin.b.delivered
       /\ twin.a.previousCompletionPercentage
            = twin.b.previousCompletionPercentage
       /\ twin.a.notifiedThresholds = twin.b.notifiedThresholds

\* an instance with both flags off has returned a partial_unlock and passed
\* it to its callback
C29_Witness ==
  /\ twin.a.config.showNotifications /\ twin.a.config.autoUnlockOnComplete
  /\ ~twin.b.config.showNotifications /\ ~twin.b.config.autoUnlockOnComplete
  /\ twin.b.returned.type = "partial_unlock"
  /\ twin.b.delivered.to # 0
  /\ twin.b.delivered.arg = twin.b.returned
  /\ twin.b.notifiedThresholds # {}

\* ------------------------------------------------------------------------
\* The unlock callback slot (SpecCallback)
\* ------------------------------------------------------------------------
UnlockTypes == { "full_unlock", "partial_unlock" }

\* C31: a processTaskCompletion call invokes the registered callback, once
\* and with the notification it returns, exactly when it returns a
\* full_unlock or a partial_unlock and a callback is registered; a call that
\* changes the percentage and crosses no threshold that is not yet notified
\* returns a progress_update and invokes nothing; an invocation goes to the
\* callback registered last, and to none after clearUnlockCallback or by any
\* other operation.
C31_CallbackOnlyOnUnlock ==
  [][ /\ ( call'.made =>
            /\ onUnlockCallback' = onUnlockCallback
            /\ delivery' =
                 IF lastNotification'.type \in UnlockTypes
                    /\ onUnlockCallback # 0
                   THEN [to |-> onUnlockCallback, arg |-> lastNotification']
                   ELSE NoDelivery
            /\ ( /\ ~CallComplete(call')
                 /\ previousCompletionPercentage' # previousCompletionPercentage
                 /\ CrossedBy(previousCompletionPercentage') = {}
                 => /\ lastNotification'.type = "progress_update"
                    /\ delivery' = NoDelivery ) )
      /\ ( ~call'.made => delivery' = NoDelivery )
      /\ ( onUnlockCallback' = 0 => delivery' = NoDelivery )
    ]_vars

\* the callback registered second holds the slot and has been handed the
\* full_unlock that the last call returned
C31_Witness ==
  /\ onUnlockCallback = 2
  /\ delivery = [to |-> 2, arg |-> lastNotification]
  /\ lastNotification.type = "full_unlock"

\* a progress_update is returned while a callback is registered
C31_ProgressWitness ==
  /\ onUnlockCallback # 0
  /\ call.made
  /\ lastNotification.type = "progress_update"
  /\ delivery = NoDelivery

\* ------------------------------------------------------------------------
\* The session record keeping of the store (SpecFocus)
\* ------------------------------------------------------------------------
\* C32: startFocusMode called while a session is active keeps the session
\* active, sets startedAt to the current time and currentSessionTime to 0,
\* and leaves sessions, totalFocusTime, lastEmergencyUnlock and the
\* restricted apps as they are: the running session gets no history record.
C32_StartWhileActive ==
  [][ ( lastOp'.op = "startFocusMode" /\ isActive ) =>
        /\ isActive'
        /\ startedAt' = now /\ now' = now
        /\ currentSessionTime' = 0
        /\ UNCHANGED << sessions, totalFocusTime, lastEmergencyUnlock,
                        restrictedAppList >>
    ]_vars

\* a session that had run for a while was started again: its clock shows 0
\* and the history is still empty
C32_Witness ==
  /\ lastOp.op = "startFocusMode" /\ lastOp.result
  /\ isActive /\ startedAt = now /\ startedAt > ClockStart
  /\ currentSessionTime = 0
  /\ sessions = << >> /\ totalFocusTime = 0

\* C33: emergencyUnlock called while canEmergencyUnlock() is true returns
\* true, ends the session (isActive false, startedAt null, currentSessionTime
\* 0), appends exactly one record to the history, with wasUnlockedNaturally
\* false and tasksCompleted 0, adds the duration of that record to
\* totalFocusTime and sets lastEmergencyUnlock to the time at its end.
C33_EmergencyUnlockSucceeds ==
  [][ ( /\ lastOp'.op = "emergencyUnlock"
        /\ CanEmergencyUnlock(isActive, lastEmergencyUnlock, now) ) =>
        /\ lastOp'.result
        /\ ~isActive' /\ startedAt' = 0 /\ currentSessionTime' = 0
        /\ Len(sessions') = Len(sessions) + 1
        /\ SubSeq(sessions', 1, Len(sessions)) = sessions
        /\ LET record == sessions'[Len(sessions')]
           IN  /\ ~record.wasUnlockedNaturally
               /\ record.tasksCompleted = 0
               /\ record.startedAt = startedAt
               /\ record.duration = record.endedAt - startedAt
               /\ totalFocusTime' = totalFocusTime + record.duration
               /\ record.endedAt <= now'
        /\ lastEmergencyUnlock' = now'
    ]_vars

\* a session that ran for a while was ended by an emergency unlock, after
\* an earlier session ended naturally
C33_Witness ==
  /\ lastOp.op = "emergencyUnlock" /\ lastOp.result
  /\ ~isActive
  /\ Len(sessions) = 2
  /\ sessions[1].wasUnlockedNaturally
  /\ ~sessions[2].wasUnlockedNaturally
  /\ sessions[2].tasksCompleted = 0
  /\ sessions[2].duration > 0
  /\ totalFocusTime = sessions[1].duration + sessions[2].duration
  /\ lastEmergencyUnlock = now

RECURSIVE SumOfDurations(_)
SumOfDurations(h) ==
  IF h = << >> THEN 0 ELSE h[1].duration + SumOfDurations(Tail(h))

\* C34: accounting invariant. In every state the store reaches from its
\* initial state by startFocusMode, stopFocusMode, updateSessionTime,
\* emergencyUnlock and resetFocusMode, totalFocusTime is the sum of the
\* durations of the records of the session history.
C34_Accounting == totalFocusTime = SumOfDurations(sessions)

\* two sessions of different lengths are on record and a stopFocusMode has
\* just added the second
C34_Witness ==
  /\ Len(sessions) = 2
  /\ sessions[1].duration > 0
  /\ sessions[2].duration > sessions[1].duration
  /\ totalFocusTime = sessions[1].duration + sessions[2].duration
  /\ lastOp.op = "stopFocusMode"

\* ------------------------------------------------------------------------
\* The two cooldown queries of the store (SpecCooldown)
\* ------------------------------------------------------------------------
\* C35: in every reachable state, read at one instant, canEmergencyUnlock()
\* is true exactly when getEmergencyUnlockCooldownRemaining() is 0 if the
\* session is Active, and is false if the session is Inactive, whatever the
\* remaining cooldown.
C35_QueriesAgree ==
  LET can == CanEmergencyUnlock(isActive, lastEmergencyUnlock, now)
      remaining ==
        GetEmergencyUnlockCooldownRemaining(lastEmergencyUnlock, now)
  IN  /\ isActive => ( can <=> remaining = 0 )
      /\ ~isActive => ~can

\* an Active session at the very end of the cooldown window of an earlier
\* emergency unlock: nothing remains and the unlock is available
C35_Witness ==
  /\ isActive
  /\ lastEmergencyUnlock # 0
  /\ now - lastEmergencyUnlock = emergencyUnlockCooldown
  /\ CanEmergencyUnlock(isActive, lastEmergencyUnlock, now)
  /\ GetEmergencyUnlockCooldownRemaining(lastEmergencyUnlock, now) = 0

\* an Inactive session with no cooldown remaining: no unlock is available
C35_InactiveWitness ==
  /\ ~isActive
  /\ lastEmergencyUnlock # 0
  /\ GetEmergencyUnlockCooldownRemaining(lastEmergencyUnlock, now) = 0

\* ------------------------------------------------------------------------
\* What the components say of one task list (SpecVerdicts)
\* ------------------------------------------------------------------------
CountOf(tasks, status) ==
  Cardinality({ i \in 1..Len(tasks) : tasks[i].status = status })

\* C36: of a task list holding at least one task that is not completed,
\* pending or cancelled, evaluateUnlockCondition never says canUnlock,
\* areAllTasksCompleted never says true and processTaskCompletion never
\* returns a full_unlock, in any tracking state; cancelled tasks are counted
\* in totalTasks and remainingTasks and not in completedTasks.
C36_CancelledBlocksUnlock ==
  LET tasks == verdicts.tasks
      open  == CountOf(tasks, "pending") + CountOf(tasks, "cancelled")
  IN  /\ "condition" \in verdicts.asked =>
           /\ verdicts.condition.totalTasks = Len(tasks)
           /\ verdicts.condition.completedTasks = CountOf(tasks, "completed")
           /\ verdicts.condition.remainingTasks = open
           /\ open > 0 => ~verdicts.condition.canUnlock
      /\ "unlockService" \in verdicts.asked /\ open > 0 =>
           ~verdicts.unlockService
      /\ "notification" \in verdicts.asked /\ open > 0 =>
           verdicts.notification # "full_unlock"

\* a list whose only unfinished task is a cancelled one has been put to the
\* three operations: one task remains and nothing unlocks
C36_Witness ==
  /\ { "condition", "unlockService", "notification" } \subseteq verdicts.asked
  /\ Len(verdicts.tasks) = MaxTasks
  /\ CountOf(verdicts.tasks, "cancelled") = 1
  /\ CountOf(verdicts.tasks, "completed") = MaxTasks - 1
  /\ verdicts.condition.remainingTasks = 1
  /\ ~verdicts.condition.canUnlock
  /\ ~verdicts.unlockService
  /\ verdicts.notification = "partial_unlock"

\* C37: for task lists of every size, evaluateUnlockCondition gives a
\* completionPercentage from 0 to 100 that is 100 exactly when canUnlock is
\* true.
C37_HundredMeansUnlocked ==
  "condition" \in verdicts.asked =>
    /\ verdicts.condition.completionPercentage >= 0
    /\ verdicts.condition.completionPercentage <= 100
    /\ verdicts.condition.completionPercentage = 100
         <=> verdicts.condition.canUnlock

\* what holds of the percentage: it is from 0 to 100 and is 100 whenever
\* canUnlock is true
C37_PercentageInRange ==
  "condition" \in verdicts.asked =>
    /\ verdicts.condition.completionPercentage >= 0
    /\ verdicts.condition.completionPercentage <= 100
    /\ verdicts.condition.canUnlock =>
         verdicts.condition.completionPercentage = 100

\* C40: TaskService.areAllTasksCompleted over the stored list, the task
\* store's areAllTasksCompleted, UnlockService.areAllTasksCompleted and
\* evaluateUnlockCondition.canUnlock give the same boolean for the same
\* list, false for the empty list included.
C40_PredicatesAgree ==
  { "condition", "unlockService", "taskStore", "taskService" }
      \subseteq verdicts.asked =>
    /\ verdicts.unlockService = verdicts.condition.canUnlock
    /\ verdicts.taskStore = verdicts.unlockService
    /\ verdicts.taskService = verdicts.unlockService
    /\ verdicts.tasks = << >> => ~verdicts.taskService

\* what holds of the four: the three that test for the empty list agree on
\* every list, and TaskService agrees with them on every list that is not
\* empty
C40_AgreeOffTheEmptyList ==
  { "condition", "unlockService", "taskStore", "taskService" }
      \subseteq verdicts.asked =>
    /\ verdicts.unlockService = verdicts.condition.canUnlock
    /\ verdicts.taskStore = verdicts.unlockService
    /\ verdicts.tasks # << >> =>
         verdicts.taskService = verdicts.unlockService

\* ------------------------------------------------------------------------
\* Callbacks after a stop (SpecRetry)
\* ------------------------------------------------------------------------
\* the callbacks of the startMonitoring calls made so far, but for those of
\* the start in effect
Retired == (1..startCalls) \ { supplied.det, supplied.term }

C38_PollingRecurs ==
  \A k \in 1..(MaxTicks - 1) :
    ( isMonitoring /\ tickCount = k ) ~> ( ~isMonitoring \/ tickCount > k )

\* one run of the monitor, never stopped, has begun its last counted tick
\* with a failed termination behind it
C38_Witness ==
  /\ isMonitoring /\ startCalls = 1
  /\ tickCount = MaxTicks
  /\ failures.pids # {}
  /\ \A t \in ticks : ~t.stopped

====
